---- MODULE Spec2Model ----
(***************************************************************************)
(* State-machine model of the video creator pipeline                       *)
(* (src/src/pipeline.py, src/src/agent.py, src/src/utils/ffmpeg.py).       *)
(*                                                                         *)
(* Durations are Python floats in the source; the model uses whole         *)
(* seconds (naturals), on which +, <, <= and the conversions *60 and       *)
(* *3600 are exact.  An optional value (Python None or a number) is a      *)
(* tuple: None is <<>> and the number n is <<n>>.                          *)
(***************************************************************************)
EXTENDS Integers, Sequences, FiniteSets, TLC

VARIABLES
    pc,              \* position of the modelled call
    caller,          \* "run_once" or "direct": who called _build_playlist
    args,            \* the CLI namespace: [test, test_minutes]
    test_cfg,        \* run_once local: config.get("test", {})
    test_enabled,    \* run_once local
    test_minutes,    \* run_once parameter, reassigned on line 53
    repeat_playlist, \* run_once local
    disable_upload,  \* run_once local
    audio_files,     \* run_once local / _build_playlist parameter files
    duration_map,    \* run_once local / _build_playlist parameter
    target_min,      \* run_once local / _build_playlist parameter
    min_cfg,         \* what _target_min_seconds read: [minutes, hours]
    playlist,        \* _build_playlist local, then run_once local
    total,           \* _build_playlist local
    index,           \* _build_playlist local
    total_seconds,   \* run_once local
    probed_total,    \* what probe_duration_seconds returned on line 79
    max_cfg,         \* what _target_max_seconds read: [minutes, hours]
    max_seconds,     \* run_once local
    audio_path,      \* run_once local: "none", "full" or "trimmed"
    trim_to,         \* the max_seconds argument trim_audio was called with
    render_duration, \* the duration_seconds argument of render_video
    upload_enabled,  \* config upload.enabled as read on line 155
    calls,           \* the external steps performed so far, in order
    error,           \* the exception that ended the call, or "none"
    frame            \* arguments and result of a helper called on its own

vars == <<pc, caller, args, test_cfg, test_enabled, test_minutes,
          repeat_playlist, disable_upload, audio_files, duration_map,
          target_min, min_cfg, playlist, total, index, total_seconds,
          probed_total, max_cfg, max_seconds, audio_path, trim_to, render_duration,
          upload_enabled, calls, error, frame>>

(***************************************************************************)
(* Bounds of the model.                                                    *)
(***************************************************************************)
MaxTracks == 3      \* tracks in a direct _build_playlist call
MaxDur == 3         \* longest track of a direct call, seconds
MaxTarget == 6      \* largest target_min of a direct call, seconds
MaxIndex == 20      \* cap on loop iterations (the loop of an all-zero
                    \* track list never ends in the source)
MaxRunTracks == 2   \* audio files collected by a modelled run

(***************************************************************************)
(* Optional values and configuration lookups.                              *)
(***************************************************************************)
None == <<>>
Some(x) == <<x>>

\* Python truthiness of a number-or-None: None and 0 are false.
Truthy(opt) == opt # None /\ opt[1] # 0

\* A raw configuration entry: the key is present with value v, or absent.
Key(x) == [present |-> TRUE, v |-> x]
AbsentNum == [present |-> FALSE, v |-> None]
AbsentBool == [present |-> FALSE, v |-> FALSE]

\* dict.get(key, default) as used by _cfg and test_cfg.get.
CfgGet(raw, default) == IF raw.present THEN raw.v ELSE default

(***************************************************************************)
(* Sums over sequences.                                                    *)
(***************************************************************************)
RECURSIVE SumSeq(_)
SumSeq(s) == IF s = <<>> THEN 0 ELSE s[1] + SumSeq(Tail(s))

\* durations = [duration_map[path] for path in files]
DurationsOf(files, dmap) == [i \in 1..Len(files) |-> dmap[files[i]]]

\* Cumulative duration of a list of paths under a duration map.
SumDur(paths, dmap) == SumSeq(DurationsOf(paths, dmap))

\* s without its last element.
Front(s) == SubSeq(s, 1, Len(s) - 1)

\* ceil(a / b) for a >= 0, b > 0.
CeilDiv(a, b) == (a + b - 1) \div b

(***************************************************************************)
(* _build_playlist (pipeline.py:260-280).  Paths are the numbers 1..n.     *)
(***************************************************************************)

\* Line 269: if target_min <= 0: return files, sum(durations)
PassThroughStrict(target) == target < 0
PassThrough(target) == target <= 0

\* Line 274: while total < target_min
LoopCondInclusive(tot, target) == tot <= target
LoopCond(tot, target) == tot < target

\* Line 275: path = files[index % len(files)]   (Python lists are 0-based)
PickPathShifted(files, idx) == files[((idx + 1) % Len(files)) + 1]
PickPath(files, idx) == files[(idx % Len(files)) + 1]

\* Line 276: duration = durations[index % len(durations)]
PickDuration(durations, idx) == durations[(idx % Len(durations)) + 1]

\* Line 278: total += duration
AccumulateLost(tot, d) == d
Accumulate(tot, d) == tot + d

\* Where _build_playlist returns to.
ReturnPc == IF caller = "run_once" THEN "concat" ELSE "returned"

otherVars == <<frame, caller, args, test_cfg, test_enabled, test_minutes,
               repeat_playlist, disable_upload, audio_files, duration_map,
               target_min, probed_total, max_cfg, max_seconds, audio_path,
               trim_to, render_duration, upload_enabled, calls>>

\* Lines 266-273: entry, pass-through return or loop initialisation.
\* On return, run_once line 67 binds the pair to playlist, total_seconds.
\* The frame of _target_min_seconds is gone once this call is entered.
BuildPlaylistEnter ==
    /\ pc = "build"
    /\ min_cfg' = None
    /\ IF PassThrough(target_min)
       THEN /\ playlist' = audio_files
            /\ total' = SumSeq(DurationsOf(audio_files, duration_map))
            /\ total_seconds' = total'
            /\ pc' = ReturnPc
            /\ UNCHANGED index
       ELSE /\ playlist' = <<>>
            /\ total' = 0
            /\ index' = 0
            /\ pc' = "loop"
            /\ UNCHANGED total_seconds
    /\ UNCHANGED <<error, otherVars>>

\* Lines 274-279: one iteration.  index % len(files) raises
\* ZeroDivisionError on an empty list.
LoopStep ==
    /\ pc = "loop"
    /\ LoopCond(total, target_min)
    /\ index < MaxIndex
    /\ IF Len(audio_files) = 0
       THEN /\ pc' = "raised"
            /\ error' = "ZeroDivisionError"
            /\ UNCHANGED <<playlist, total, index>>
       ELSE /\ playlist' = Append(playlist, PickPath(audio_files, index))
            /\ total' = Accumulate(total,
                   PickDuration(DurationsOf(audio_files, duration_map), index))
            /\ index' = index + 1
            /\ UNCHANGED <<pc, error>>
    /\ UNCHANGED <<total_seconds, min_cfg, otherVars>>

\* Lines 274, 280: the loop condition fails; return playlist, total.
LoopExit ==
    /\ pc = "loop"
    /\ ~LoopCond(total, target_min)
    /\ total_seconds' = total
    /\ pc' = ReturnPc
    /\ UNCHANGED <<playlist, total, index, error, min_cfg, otherVars>>

(***************************************************************************)
(* A direct call _build_playlist(files, target_min, duration_map) with     *)
(* inputs drawn from bounded sets.                                         *)
(***************************************************************************)
PathList(n) == [i \in 1..n |-> i]

RunLocalsUnset ==
    /\ test_cfg = [enabled |-> AbsentBool, max_minutes |-> AbsentNum,
                   repeat_playlist |-> AbsentBool, disable_upload |-> AbsentBool]
    /\ test_enabled = FALSE
    /\ repeat_playlist = FALSE
    /\ disable_upload = FALSE
    /\ min_cfg = None
    /\ playlist = <<>>
    /\ total = 0
    /\ index = 0
    /\ total_seconds = 0
    /\ probed_total = None
    /\ max_cfg = None
    /\ max_seconds = None
    /\ audio_path = "none"
    /\ trim_to = None
    /\ render_duration = None
    /\ upload_enabled = FALSE
    /\ calls = <<>>
    /\ error = "none"

InitPlaylist ==
    /\ pc = "build"
    /\ caller = "direct"
    /\ \E n \in 0..MaxTracks :
          /\ audio_files = PathList(n)
          /\ duration_map \in [1..n -> 0..MaxDur]
    /\ target_min \in (0 - 1)..MaxTarget
    /\ args = [test |-> FALSE, test_minutes |-> None]
    /\ test_minutes = None
    /\ RunLocalsUnset
    /\ frame = None

NextPlaylist == BuildPlaylistEnter \/ LoopStep \/ LoopExit

SpecPlaylist == InitPlaylist /\ [][NextPlaylist]_vars

(***************************************************************************)
(* Properties of _build_playlist.                                          *)
(***************************************************************************)
Returned == pc = "returned"

AllPositive == \A p \in DOMAIN duration_map : duration_map[p] > 0

AllEqual == \A p, q \in DOMAIN duration_map : duration_map[p] = duration_map[q]

\* Cumulative duration of one pass over the input list.
ListSum == SumDur(audio_files, duration_map)

\* Full passes over the list needed to reach target_min.
Cycles == CeilDiv(target_min, ListSum)

\* ceil(target_min / avg_duration), avg_duration = ListSum / len(files).
CeilMinOverAvg == CeilDiv(target_min * Len(audio_files), ListSum)

\* C1: for a non-empty track list and min_seconds > 0, the returned
\* playlist's cumulative duration is >= min_seconds, the playlist without
\* its last element has cumulative duration < min_seconds, and a single
\* track of duration >= min_seconds gives a one-element playlist.
C1_MinimalCover ==
    (Returned /\ audio_files # <<>> /\ target_min > 0) =>
        /\ SumDur(playlist, duration_map) >= target_min
        /\ SumDur(Front(playlist), duration_map) < target_min
        /\ (Len(audio_files) = 1 /\ duration_map[audio_files[1]] >= target_min
               => Len(playlist) = 1)

\* C1 witness: a returned playlist that wrapped around a list of two or more
\* tracks and overshoots the target.
C1_Witness ==
    /\ Returned
    /\ target_min > 0
    /\ Len(audio_files) >= 2
    /\ Len(playlist) > Len(audio_files)
    /\ SumDur(playlist, duration_map) > target_min

\* C2: when min_seconds <= 0 the input list is returned unchanged and
\* total_seconds is the sum of the input tracks' durations.
C2_PassThrough ==
    (Returned /\ target_min <= 0) =>
        /\ playlist = audio_files
        /\ total_seconds = SumDur(audio_files, duration_map)

\* C2 witness: a pass-through return of several tracks with min_seconds = 0.
C2_Witness ==
    /\ Returned
    /\ target_min = 0
    /\ Len(playlist) >= 2
    /\ total_seconds > 0

\* C3: at every step of the loop and in the result, playlist element i is
\* tracks[i mod len(tracks)] and the running total is the sum of the
\* durations of the elements appended so far.
C3_CyclicPrefix ==
    /\ \A i \in 1..Len(playlist) :
          playlist[i] = audio_files[((i - 1) % Len(audio_files)) + 1]
    /\ total = SumDur(playlist, duration_map)
    /\ pc = "loop" => index = Len(playlist)
    /\ Returned => total_seconds = total

\* C3 witness: the loop is still running after wrapping around a list of
\* tracks with different durations.
C3_Witness ==
    /\ pc = "loop"
    /\ Len(audio_files) >= 2
    /\ Len(playlist) > Len(audio_files)
    /\ duration_map[1] # duration_map[2]
    /\ LoopCond(total, target_min)

C4_Applies == audio_files # <<>> /\ AllPositive /\ target_min > 0

\* C4 as stated: with positive durations the loop ends after exactly
\* ceil(min_seconds / avg_duration) append steps.
C4_Original ==
    (Returned /\ C4_Applies) => index = CeilMinOverAvg

\* C4 amended: with positive durations the loop never blocks and ends after
\* n append steps with len*(k-1) < n <= len*k, k = ceil(min_seconds / sum of
\* the list's durations), so n differs from ceil(min_seconds / avg_duration)
\* by less than len; n is exactly that number when all durations are equal.
C4_StepBound ==
    C4_Applies =>
        /\ pc = "loop" => /\ index <= Len(audio_files) * Cycles
                          /\ ENABLED (LoopStep \/ LoopExit)
        /\ Returned =>
              /\ index <= Len(audio_files) * Cycles
              /\ index > Len(audio_files) * (Cycles - 1)
              /\ index - CeilMinOverAvg < Len(audio_files)
              /\ CeilMinOverAvg - index < Len(audio_files)
              /\ AllEqual => index = CeilMinOverAvg

\* C4 witness: a returned playlist over tracks of different positive
\* durations whose length is not ceil(min_seconds / avg_duration).
C4_Witness ==
    /\ Returned
    /\ C4_Applies
    /\ ~AllEqual
    /\ index # CeilMinOverAvg
    /\ index > Len(audio_files)

(***************************************************************************)
(* run_once (pipeline.py:45-193), called from the command line             *)
(* (agent.py:21-24, 65-72) or from the scheduler (agent.py:32).            *)
(* Configuration keys are read where the source reads them; each key is    *)
(* read once per run, so drawing its value at the read is drawing the      *)
(* configuration.                                                          *)
(***************************************************************************)
DefaultMinHours == 8
DefaultMaxHours == 9

\* Command-line arguments --test and --test-minutes (agent.py:51-61); the
\* scheduler calls run_once with the defaults (FALSE, None).
ArgSets == [test : BOOLEAN, test_minutes : {None, Some(0), Some(30)}]

\* The test section of the configuration.
TestCfgs == [enabled : {AbsentBool, Key(TRUE)},
             max_minutes : {AbsentNum, Key(Some(1))},
             repeat_playlist : {AbsentBool, Key(TRUE)},
             disable_upload : {AbsentBool, Key(FALSE)}]

\* audio.repeat_playlist and upload.enabled, both defaulting to true.
DefaultTrueCfgs == {AbsentBool, Key(FALSE)}

\* audio.target_minutes_min / target_hours_min / target_minutes_max /
\* target_hours_max as they may stand in the configuration.
MinMinutesCfgs == {AbsentNum, Key(Some(0)), Key(Some(30)), Key(Some(90))}
MinHoursCfgs == {AbsentNum, Key(None), Key(Some(0)), Key(Some(1))}
MaxMinutesCfgs == {AbsentNum, Key(Some(0)), Key(Some(70))}
MaxHoursCfgs == {AbsentNum, Key(None), Key(Some(1))}

\* Durations ffprobe may report for a collected track, seconds.
TrackSeconds == {1800, 2400}

\* Probed duration of the concatenated audio minus the sum of its tracks.
ConcatDrift == {0 - 1, 0, 1}

\* Line 51.
TestEnabledFlagOnly(a, cfg) == a.test \/ CfgGet(cfg.enabled, FALSE)
TestEnabled(a, cfg) ==
    a.test \/ CfgGet(cfg.enabled, FALSE) \/ a.test_minutes # None

\* Lines 52-53.
TestMinutes(a, cfg, te) ==
    IF a.test_minutes = None /\ te
    THEN CfgGet(cfg.max_minutes, None)
    ELSE a.test_minutes

\* Lines 54-58.
RepeatPlaylist(te, cfg, audio_repeat) ==
    IF te THEN CfgGet(cfg.repeat_playlist, FALSE)
    ELSE CfgGet(audio_repeat, TRUE)

\* Line 59.
DisableUpload(te, cfg) ==
    IF te THEN CfgGet(cfg.disable_upload, TRUE) ELSE FALSE

\* Line 62: if not audio_files
NoAudioIgnored(files) == FALSE
NoAudio(files) == files = <<>>

\* _target_min_seconds, lines 409-418.
TargetMinSeconds(minutes, hours) ==
    LET min_minutes == CfgGet(minutes, None)
        min_hours == CfgGet(hours, Some(DefaultMinHours))
    IN  IF min_minutes # None THEN min_minutes[1] * 60
        ELSE IF ~Truthy(min_hours) THEN 0
        ELSE min_hours[1] * 3600

\* _target_max_seconds, lines 420-427.
TargetMaxSecondsHoursFirst(minutes, hours) ==
    LET max_minutes == CfgGet(minutes, None)
        max_hours == CfgGet(hours, Some(DefaultMaxHours))
    IN  IF Truthy(max_hours) THEN Some(max_hours[1] * 3600)
        ELSE IF max_minutes # None THEN Some(max_minutes[1] * 60)
        ELSE None
TargetMaxSeconds(minutes, hours) ==
    LET max_minutes == CfgGet(minutes, None)
        max_hours == CfgGet(hours, Some(DefaultMaxHours))
    IN  IF max_minutes # None THEN Some(max_minutes[1] * 60)
        ELSE IF Truthy(max_hours) THEN Some(max_hours[1] * 3600)
        ELSE None

\* Lines 82-86: the maximum after the test-mode adjustments.
EffectiveMaxConfigFirst(configured, te, tm, rp) ==
    IF te /\ configured = None /\ Truthy(tm) THEN Some(tm[1] * 60)
    ELSE IF te /\ ~Truthy(tm) /\ ~rp THEN None
    ELSE configured
EffectiveMax(configured, te, tm, rp) ==
    IF te
    THEN IF Truthy(tm) THEN Some(tm[1] * 60)
         ELSE IF ~rp THEN None
         ELSE configured
    ELSE configured

\* Line 87: if max_seconds and total_seconds > max_seconds
NeedsTrimAlways(maxs, tot) == Truthy(maxs)
NeedsTrim(maxs, tot) == Truthy(maxs) /\ tot > maxs[1]

\* Line 98: total_seconds = max_seconds
TrimmedTotalKept(maxs, tot) == tot
TrimmedTotal(maxs, tot) == maxs[1]

\* Line 155: if upload.enabled and not disable_upload
ShouldUploadAlways(enabled, disabled) == enabled
ShouldUpload(enabled, disabled) == enabled /\ ~disabled

Called(op) == \E i \in 1..Len(calls) : calls[i] = op

\* An external step raised: the exception leaves run_once.
Fail(what) ==
    /\ pc' = "failed"
    /\ error' = what

Init ==
    /\ pc = "start"
    /\ caller = "run_once"
    /\ audio_files = <<>>
    /\ duration_map = <<>>
    /\ target_min = 0
    /\ RunLocalsUnset
    /\ frame = None
    /\ \E a \in ArgSets :
          /\ args = a
          /\ test_minutes = a.test_minutes

\* Lines 50-59.
ReadTestConfig ==
    /\ pc = "start"
    /\ \E cfg \in TestCfgs, audio_repeat \in DefaultTrueCfgs :
          LET te == TestEnabled(args, cfg) IN
          /\ test_cfg' = cfg
          /\ test_enabled' = te
          /\ test_minutes' = TestMinutes(args, cfg, te)
          /\ repeat_playlist' = RepeatPlaylist(te, cfg, audio_repeat)
          /\ disable_upload' = DisableUpload(te, cfg)
    /\ pc' = "collect"
    /\ UNCHANGED <<frame, caller, args, audio_files, duration_map, target_min,
                   min_cfg, playlist, total, index, total_seconds,
                   probed_total, max_cfg, max_seconds, audio_path, trim_to,
                   render_duration, upload_enabled, calls, error>>

\* Lines 61-63: _collect_audio_files returns the sorted list of files, or
\* raises; an empty list ends the run.
CollectAudio ==
    /\ pc = "collect"
    /\ calls' = Append(calls, "collect")
    /\ \E ok \in BOOLEAN, n \in 0..MaxRunTracks :
          IF ~ok
          THEN /\ n = 0
               /\ Fail("collect failed")
               /\ UNCHANGED audio_files
          ELSE /\ audio_files' = PathList(n)
               /\ IF NoAudio(audio_files')
                  THEN Fail("RuntimeError: No MP3 files found")
                  ELSE pc' = "probe" /\ UNCHANGED error
    /\ UNCHANGED <<frame, caller, args, test_cfg, test_enabled, test_minutes,
                   repeat_playlist, disable_upload, duration_map, target_min,
                   min_cfg, playlist, total, index, total_seconds,
                   probed_total, max_cfg, max_seconds, audio_path, trim_to,
                   render_duration, upload_enabled>>

\* Line 65: _probe_durations, one ffprobe call per file (lines 257-258).
ProbeDurations ==
    /\ pc = "probe"
    /\ calls' = Append(calls, "probe")
    /\ \E ok \in BOOLEAN :
          IF ~ok
          THEN /\ Fail("RuntimeError: ffprobe failed")
               /\ UNCHANGED duration_map
          ELSE /\ duration_map' \in [1..Len(audio_files) -> TrackSeconds]
               /\ pc' = "target_min"
               /\ UNCHANGED error
    /\ UNCHANGED <<frame, caller, args, test_cfg, test_enabled, test_minutes,
                   repeat_playlist, disable_upload, audio_files, target_min,
                   min_cfg, playlist, total, index, total_seconds,
                   probed_total, max_cfg, max_seconds, audio_path, trim_to,
                   render_duration, upload_enabled>>

\* Line 66: target_min = self._target_min_seconds() if repeat_playlist
\* else 0.0
TargetMin ==
    /\ pc = "target_min"
    /\ IF repeat_playlist
       THEN \E m \in MinMinutesCfgs, h \in MinHoursCfgs :
               /\ min_cfg' = Some([minutes |-> m, hours |-> h])
               /\ target_min' = TargetMinSeconds(m, h)
       ELSE /\ min_cfg' = None
            /\ target_min' = 0
    /\ pc' = "build"
    /\ UNCHANGED <<frame, caller, args, test_cfg, test_enabled, test_minutes,
                   repeat_playlist, disable_upload, audio_files, duration_map,
                   playlist, total, index, total_seconds, probed_total,
                   max_cfg, max_seconds, audio_path, trim_to, render_duration,
                   upload_enabled, calls, error>>

\* Lines 68-79: write_concat_list, concat_audio, then the duration of the
\* concatenated file is probed.
ConcatAudio ==
    /\ pc = "concat"
    /\ calls' = Append(calls, "concat")
    /\ \E ok \in BOOLEAN, drift \in ConcatDrift :
          IF ~ok
          THEN /\ drift = 0
               /\ Fail("RuntimeError: ffmpeg failed")
               /\ UNCHANGED <<audio_path, total_seconds, probed_total>>
          ELSE /\ audio_path' = "full"
               /\ total_seconds' = SumDur(playlist, duration_map) + drift
               /\ probed_total' = Some(total_seconds')
               /\ pc' = "target_max"
               /\ UNCHANGED error
    /\ UNCHANGED <<frame, caller, args, test_cfg, test_enabled, test_minutes,
                   repeat_playlist, disable_upload, audio_files, duration_map,
                   target_min, min_cfg, playlist, total, index, max_cfg,
                   max_seconds, trim_to, render_duration, upload_enabled>>

\* Line 81: max_seconds = self._target_max_seconds()
TargetMax ==
    /\ pc = "target_max"
    /\ \E m \in MaxMinutesCfgs, h \in MaxHoursCfgs :
          /\ max_cfg' = Some([minutes |-> m, hours |-> h])
          /\ max_seconds' = TargetMaxSeconds(m, h)
    /\ pc' = "effective_max"
    /\ UNCHANGED <<frame, caller, args, test_cfg, test_enabled, test_minutes,
                   repeat_playlist, disable_upload, audio_files, duration_map,
                   target_min, min_cfg, playlist, total, index, total_seconds,
                   probed_total, audio_path, trim_to, render_duration,
                   upload_enabled, calls, error>>

\* Lines 82-86.
AdjustMax ==
    /\ pc = "effective_max"
    /\ max_seconds' =
          EffectiveMax(max_seconds, test_enabled, test_minutes, repeat_playlist)
    /\ pc' = "trim"
    /\ UNCHANGED <<frame, caller, args, test_cfg, test_enabled, test_minutes,
                   repeat_playlist, disable_upload, audio_files, duration_map,
                   target_min, min_cfg, playlist, total, index, total_seconds,
                   probed_total, max_cfg, audio_path, trim_to, render_duration,
                   upload_enabled, calls, error>>

\* Lines 87-98: trim_audio(audio_path, trimmed_audio, max_seconds=...).  The
\* frame of _target_max_seconds is long gone; the model forgets it here.
Enforce ==
    /\ pc = "trim"
    /\ max_cfg' = None
    /\ IF NeedsTrim(max_seconds, total_seconds)
       THEN /\ calls' = Append(calls, "trim")
            /\ trim_to' = max_seconds
            /\ \E ok \in BOOLEAN :
                  IF ~ok
                  THEN /\ Fail("RuntimeError: ffmpeg failed")
                       /\ UNCHANGED <<audio_path, total_seconds>>
                  ELSE /\ audio_path' = "trimmed"
                       /\ total_seconds' = TrimmedTotal(max_seconds, total_seconds)
                       /\ pc' = "visuals"
                       /\ UNCHANGED error
       ELSE /\ pc' = "visuals"
            /\ UNCHANGED <<calls, trim_to, audio_path, total_seconds, error>>
    /\ UNCHANGED <<frame, caller, args, test_cfg, test_enabled, test_minutes,
                   repeat_playlist, disable_upload, audio_files, duration_map,
                   target_min, min_cfg, playlist, total, index, probed_total,
                   max_seconds, render_duration, upload_enabled>>

(***************************************************************************)
(* Helpers called on their own.  A helper of the pipeline that is a pure   *)
(* function of its arguments is modelled as an operator; a specification   *)
(* of its own draws the arguments into frame and applies the operator.     *)
(* The variables of run_once keep their initial values meanwhile.          *)
(***************************************************************************)
pipelineVars == <<pc, caller, args, test_cfg, test_enabled, test_minutes,
                  repeat_playlist, disable_upload, audio_files, duration_map,
                  target_min, min_cfg, playlist, total, index, total_seconds,
                  probed_total, max_cfg, max_seconds, audio_path, trim_to,
                  render_duration, upload_enabled, calls, error>>

PipelineIdle ==
    /\ pc = "helper"
    /\ caller = "direct"
    /\ args = [test |-> FALSE, test_minutes |-> None]
    /\ test_minutes = None
    /\ audio_files = <<>>
    /\ duration_map = <<>>
    /\ target_min = 0
    /\ RunLocalsUnset

(***************************************************************************)
(* Strings.  A Python str is the sequence of its characters, each a        *)
(* one-character string; "" is <<>>.                                       *)
(***************************************************************************)
Whitespace == {" ", "\t", "\n"}

UpperCase == <<"A", "B", "C", "D", "E", "F", "G", "H", "I", "J", "K", "L", "M",
               "N", "O", "P", "Q", "R", "S", "T", "U", "V", "W", "X", "Y", "Z">>
LowerCase == <<"a", "b", "c", "d", "e", "f", "g", "h", "i", "j", "k", "l", "m",
               "n", "o", "p", "q", "r", "s", "t", "u", "v", "w", "x", "y", "z">>

\* str.lower() on one character.
LowerChar(c) ==
    IF \E i \in DOMAIN UpperCase : UpperCase[i] = c
    THEN LowerCase[CHOOSE i \in DOMAIN UpperCase : UpperCase[i] = c]
    ELSE c

\* str.lower()
Lower(s) == [i \in 1..Len(s) |-> LowerChar(s[i])]

RECURSIVE LStrip(_)
LStrip(s) ==
    IF s # <<>> /\ Head(s) \in Whitespace THEN LStrip(Tail(s)) ELSE s

RECURSIVE RStrip(_)
RStrip(s) ==
    IF s # <<>> /\ s[Len(s)] \in Whitespace THEN RStrip(Front(s)) ELSE s

\* str.strip()
Strip(s) == RStrip(LStrip(s))

\* All strings over an alphabet of at most n characters.
StringsUpTo(alphabet, n) == UNION {[1..k -> alphabet] : k \in 0..n}

\* sep.join(items) for a one-character separator.
RECURSIVE Join(_, _)
Join(items, sep) ==
    IF items = <<>> THEN <<>>
    ELSE IF Len(items) = 1 THEN items[1]
    ELSE items[1] \o <<sep>> \o Join(Tail(items), sep)

\* The pieces of s between the characters of seps, empty pieces included.
RECURSIVE SplitOn(_, _)
SplitOn(s, seps) ==
    IF \A i \in DOMAIN s : s[i] \notin seps THEN <<s>>
    ELSE LET k == CHOOSE i \in DOMAIN s :
                     s[i] \in seps /\ \A j \in 1..(i - 1) : s[j] \notin seps
         IN <<SubSeq(s, 1, k - 1)>> \o SplitOn(SubSeq(s, k + 1, Len(s)), seps)

\* [item.strip() for item in items if item.strip()]
RECURSIVE StripItems(_)
StripItems(items) ==
    IF items = <<>> THEN <<>>
    ELSE IF Strip(Head(items)) = <<>> THEN StripItems(Tail(items))
    ELSE <<Strip(Head(items))>> \o StripItems(Tail(items))

(***************************************************************************)
(* Overlay text: VideoCreatorAgent._resolve_overlay_text of the pipeline   *)
(* (pipeline.py 486-504) and select_overlay_text of the dashboard          *)
(* (streamlit_app.py 627-636).                                             *)
(***************************************************************************)
MaxText == 3        \* longest explicit overlay text, characters
MaxCands == 3       \* most entries of auto_texts
MaxDay == 6         \* latest date.toordinal() of a modelled call

RANDOM == <<"r", "a", "n", "d", "o", "m">>
DAILY == <<"d", "a", "i", "l", "y">>

\* The values of text_overlay.text; None and "" are both falsy and both
\* become "" on line 488, and both are <<>> here.
OverlayTexts == StringsUpTo({" ", "x"}, MaxText)

\* The entries an auto_texts list is made of.
AutoTextItems == {<<"A">>, <<" ", "B">>, <<" ">>}

\* The values of text_overlay.auto_texts: a list of strings in v, or one
\* string, which is v[1].
AutoTexts ==
    {[kind |-> "list", v |-> l] :
        l \in UNION {[1..k -> AutoTextItems] : k \in 0..MaxCands}}
    \cup {[kind |-> "str", v |-> << <<"A", ",", " ", "B", "\n", "C">> >>],
          [kind |-> "str", v |-> << <<",", "\n">> >>]}

\* The values of text_overlay.auto_mode.
AutoModes == {DAILY, RANDOM, <<" ", "R", "a", "n", "d", "o", "m">>,
              <<"w", "e", "e", "k", "l", "y">>, <<>>}

\* pipeline.py 491-495: line.split(",") over auto_texts.splitlines().  The
\* pieces differ from those of splitting at both separators only in empty
\* pieces, which line 496 drops.
SplitLinesAndCommas(text) == SplitOn(text, {",", "\n"})

\* pipeline.py 490-496: the candidates _resolve_overlay_text chooses from.
PipelineCandidates(auto_texts) ==
    StripItems(IF auto_texts.kind = "str"
               THEN SplitLinesAndCommas(auto_texts.v[1])
               ELSE auto_texts.v)

\* streamlit_app.py 618-624: split_text_lines
split_text_lines(text) ==
    IF text = <<>> THEN <<>> ELSE StripItems(SplitLinesAndCommas(text))

\* streamlit_app.py 1258-1260 and 1754: the dashboard shows a configured list
\* in a text area, one entry per line, and parses the text area back.
DashboardCandidates(auto_texts) ==
    split_text_lines(IF auto_texts.kind = "str"
                     THEN auto_texts.v[1]
                     ELSE Join(auto_texts.v, "\n"))

\* pipeline.py 502 and streamlit_app.py 635:
\* dt.date.today().toordinal() % len(auto_texts), as a 1-based position.
DailyIndexShifted(today, n) == ((today + 1) % (n + 1)) + 1
DailyIndex(today, n) == (today % n) + 1

\* pipeline.py 498 and streamlit_app.py 632: the mode that is compared
\* with "random".
NormalMode(mode) == Lower(Strip(mode))

\* pipeline.py 497-503 and streamlit_app.py 632-636; pick is the position
\* random.choice draws.
ChooseCandidate(cands, mode, today, pick) ==
    IF NormalMode(mode) = RANDOM
    THEN cands[pick]
    ELSE cands[DailyIndex(today, Len(cands))]

\* pipeline.py 489: if not text
TextMissing(text) == text = <<>>

\* pipeline.py 504: return str(text).strip()
FinalTextRaw(text) == text
FinalText(text) == Strip(text)

\* pipeline.py 486-504
ResolveOverlayText(text, auto_texts, mode, today, pick) ==
    LET cands == PipelineCandidates(auto_texts)
        chosen == IF TextMissing(text) /\ cands # <<>>
                  THEN ChooseCandidate(cands, mode, today, pick)
                  ELSE text
    IN FinalText(chosen)

\* streamlit_app.py 627-636
SelectOverlayText(overlay_text, auto_texts, mode, today, pick) ==
    IF Strip(overlay_text) # <<>> THEN Strip(overlay_text)
    ELSE IF auto_texts = <<>> THEN <<>>
    ELSE ChooseCandidate(auto_texts, mode, today, pick)

\* The positions random.choice can draw from a list.
Picks(cands) == IF cands = <<>> THEN {1} ELSE DOMAIN cands

InitOverlay ==
    /\ PipelineIdle
    /\ \E t \in OverlayTexts, a \in AutoTexts, m \in AutoModes,
          d \in 1..MaxDay :
          frame = [text |-> t, auto_texts |-> a, auto_mode |-> m, today |-> d,
                   resolved |-> None, selected |-> None]

\* The pipeline resolves the overlay text of the run.
ResolveOverlay ==
    /\ "resolved" \in DOMAIN frame
    /\ frame.resolved = None
    /\ \E pick \in Picks(PipelineCandidates(frame.auto_texts)) :
          frame' = [frame EXCEPT !.resolved =
                       Some(ResolveOverlayText(frame.text, frame.auto_texts,
                                               frame.auto_mode, frame.today,
                                               pick))]
    /\ UNCHANGED pipelineVars

\* The dashboard selects the overlay text of the thumbnail preview.
SelectOverlay ==
    /\ "selected" \in DOMAIN frame
    /\ frame.selected = None
    /\ \E pick \in Picks(DashboardCandidates(frame.auto_texts)) :
          frame' = [frame EXCEPT !.selected =
                       Some(SelectOverlayText(frame.text,
                                DashboardCandidates(frame.auto_texts),
                                frame.auto_mode, frame.today, pick))]
    /\ UNCHANGED pipelineVars

NextOverlay == ResolveOverlay \/ SelectOverlay

SpecOverlay == InitOverlay /\ [][NextOverlay]_vars

(***************************************************************************)
(* Properties of overlay text resolution.                                  *)
(***************************************************************************)
Resolved == frame.resolved # None
Selected == frame.selected # None

ExplicitText == Strip(frame.text) # <<>>
BlankText == frame.text # <<>> /\ Strip(frame.text) = <<>>
NoText == frame.text = <<>>

PipelineCands == PipelineCandidates(frame.auto_texts)
DashboardCands == DashboardCandidates(frame.auto_texts)

\* The candidate of today's date.
Todays(cands) == cands[DailyIndex(frame.today, Len(cands))]

\* C11: an explicit text that is non-empty after trimming is returned
\* trimmed by the pipeline resolver and by the dashboard selector, whatever
\* the candidates, the mode and the date.
C11_ExplicitWins ==
    ExplicitText =>
        /\ Resolved => frame.resolved = Some(Strip(frame.text))
        /\ Selected => frame.selected = Some(Strip(frame.text))

C11_Witness ==
    /\ ExplicitText
    /\ frame.text # Strip(frame.text)
    /\ PipelineCands # <<>>
    /\ NormalMode(frame.auto_mode) = RANDOM
    /\ Resolved
    /\ Selected

\* C12: a whitespace-only explicit text is treated as absent: in daily mode
\* with a non-empty candidate list both the pipeline resolver and the
\* dashboard selector return today's candidate.
C12_Original ==
    (BlankText /\ frame.auto_mode = DAILY) =>
        /\ (Resolved /\ PipelineCands # <<>>) =>
               frame.resolved = Some(Todays(PipelineCands))
        /\ (Selected /\ DashboardCands # <<>>) =>
               frame.selected = Some(Todays(DashboardCands))

\* C13 as stated: with no explicit text and a non-empty candidate list, every
\* mode string other than "random" selects today's candidate.
C13_Original ==
    (NoText /\ frame.auto_mode # RANDOM) =>
        /\ (Resolved /\ PipelineCands # <<>>) =>
               frame.resolved = Some(Todays(PipelineCands))
        /\ (Selected /\ DashboardCands # <<>>) =>
               frame.selected = Some(Todays(DashboardCands))

\* Over the n dates from today on, every position of a list of n
\* candidates is today's position exactly once.
EachOnce(n) ==
    \A i \in 1..n :
        Cardinality({d \in frame.today..(frame.today + n - 1) :
                        DailyIndex(d, n) = i}) = 1

\* C13: with no explicit text and a non-empty candidate list, every mode
\* that is not "random" once trimmed and lowercased selects
\* candidates[today mod len(candidates)], a function of the date alone, and
\* len(candidates) consecutive dates select each candidate exactly once.
C13_DailyRotation ==
    (NoText /\ NormalMode(frame.auto_mode) # RANDOM) =>
        /\ (Resolved /\ PipelineCands # <<>>) =>
               /\ frame.resolved =
                      Some(PipelineCands[(frame.today % Len(PipelineCands)) + 1])
               /\ EachOnce(Len(PipelineCands))
        /\ (Selected /\ DashboardCands # <<>>) =>
               /\ frame.selected =
                      Some(DashboardCands[(frame.today % Len(DashboardCands)) + 1])
               /\ EachOnce(Len(DashboardCands))

C13_Witness ==
    /\ NoText
    /\ frame.auto_mode \notin {DAILY, RANDOM}
    /\ NormalMode(frame.auto_mode) # RANDOM
    /\ Len(PipelineCands) = 3
    /\ frame.today > Len(PipelineCands)
    /\ Resolved
    /\ Selected

(***************************************************************************)
(* Tracklist and chapter metadata: VideoCreatorAgent._write_tracklist and  *)
(* _format_timestamp (pipeline.py 517-550), write_ffmetadata_chapters      *)
(* (ffmpeg.py 58-82).  A duration is a whole number of ticks of half a     *)
(* millisecond, so that the ties of round(seconds) and of                  *)
(* round(duration * 1000.0) are both representable.  A file is the         *)
(* sequence of its lines.                                                  *)
(***************************************************************************)
MaxPlaylist == 3    \* longest playlist of a tracklist or chapter call

TicksPerSecond == 2000
TicksPerMs == TicksPerSecond \div 1000

\* Python round(): to the nearest integer, a tie to the even neighbour.
RoundHalfEven(n, unit) ==
    LET q == n \div unit
        r == n % unit
    IN IF 2 * r < unit THEN q
       ELSE IF 2 * r > unit THEN q + 1
       ELSE IF q % 2 = 0 THEN q ELSE q + 1

DigitChars == <<"0", "1", "2", "3", "4", "5", "6", "7", "8", "9">>

\* str(n) for n >= 0
RECURSIVE Decimal(_)
Decimal(n) ==
    IF n < 10 THEN <<DigitChars[n + 1]>>
    ELSE Decimal(n \div 10) \o <<DigitChars[(n % 10) + 1]>>

\* f"{n:02d}" for n >= 0
Pad2(n) == IF n < 10 THEN <<"0">> \o Decimal(n) ELSE Decimal(n)

\* pipeline.py 545-550
FormatTimestampTruncated(ticks) ==
    LET tot == ticks \div TicksPerSecond
    IN Pad2(tot \div 3600) \o <<":">> \o Pad2((tot % 3600) \div 60)
       \o <<":">> \o Pad2(tot % 60)
FormatTimestamp(ticks) ==
    LET tot == RoundHalfEven(ticks, TicksPerSecond)
    IN Pad2(tot \div 3600) \o <<":">> \o Pad2((tot % 3600) \div 60)
       \o <<":">> \o Pad2(tot % 60)

\* PurePath.name: the part of the path after the last separator.
PathName(path) ==
    IF \E i \in DOMAIN path : path[i] = "/"
    THEN LET k == CHOOSE i \in DOMAIN path :
                      path[i] = "/" /\ \A j \in (i + 1)..Len(path) : path[j] # "/"
         IN SubSeq(path, k + 1, Len(path))
    ELSE path

\* PurePath.stem: the name without its last suffix.
Stem(path) ==
    LET name == PathName(path)
        dots == {i \in DOMAIN name : name[i] = "."}
    IN IF dots = {} THEN name
       ELSE LET k == CHOOSE i \in dots : \A j \in dots : j <= i
            IN IF 1 < k /\ k < Len(name) THEN SubSeq(name, 1, k - 1) ELSE name

\* str.replace(ch, rep) for a one-character ch.
RECURSIVE Replace(_, _, _)
Replace(s, ch, rep) ==
    IF s = <<>> THEN <<>>
    ELSE (IF Head(s) = ch THEN rep ELSE <<Head(s)>>) \o Replace(Tail(s), ch, rep)

\* ffmpeg.py 169-175
EscapeFfmetadata(value) ==
    Replace(Replace(Replace(Replace(value, "\\", <<"\\", "\\">>),
                            "\n", <<"\\", "n">>),
                    "=", <<"\\", "=">>),
            ";", <<"\\", ";">>)

\* dict.get(path, default); a key the map lacks is mapped to None here.
DurationGetDefault(dmap, path, default) == default
DurationGet(dmap, path, default) ==
    IF dmap[path] = None THEN default ELSE dmap[path][1]

\* pipeline.py 528-532: the entries from the given offset on.
RECURSIVE TracklistEntries(_, _, _)
TracklistEntries(pl, dmap, current) ==
    IF pl = <<>> THEN <<>>
    ELSE <<FormatTimestamp(current) \o <<" ">> \o Stem(Head(pl))>>
         \o TracklistEntries(Tail(pl), dmap,
                             current + DurationGet(dmap, Head(pl), 0))

\* pipeline.py 517-535: the lines of the file written, or None.
WriteTracklist(pl, dmap, enabled) ==
    IF ~enabled THEN None ELSE Some(TracklistEntries(pl, dmap, 0))

\* ffmpeg.py 68: max(int(round(duration * 1000.0)), 1)
DurationMsUnclamped(ticks) == RoundHalfEven(ticks, TicksPerMs)
DurationMs(ticks) ==
    IF RoundHalfEven(ticks, TicksPerMs) > 1
    THEN RoundHalfEven(ticks, TicksPerMs) ELSE 1

CHAPTER == <<"[", "C", "H", "A", "P", "T", "E", "R", "]">>
TIMEBASE == <<"T", "I", "M", "E", "B", "A", "S", "E", "=", "1", "/",
              "1", "0", "0", "0">>
START == <<"S", "T", "A", "R", "T", "=">>
END == <<"E", "N", "D", "=">>
TITLE == <<"t", "i", "t", "l", "e", "=">>
FFMETADATA1 == <<";", "F", "F", "M", "E", "T", "A", "D", "A", "T", "A", "1">>

\* ffmpeg.py 64-81: the lines of the chapters from start_ms on.
RECURSIVE ChapterBlocks(_, _, _)
ChapterBlocks(pl, dmap, start_ms) ==
    IF pl = <<>> THEN <<>>
    ELSE IF dmap[Head(pl)] = None THEN ChapterBlocks(Tail(pl), dmap, start_ms)
    ELSE LET end_ms == start_ms + DurationMs(dmap[Head(pl)][1])
         IN <<CHAPTER, TIMEBASE, START \o Decimal(start_ms),
              END \o Decimal(end_ms),
              TITLE \o EscapeFfmetadata(Stem(Head(pl)))>>
            \o ChapterBlocks(Tail(pl), dmap, end_ms)

\* ffmpeg.py 58-82: the lines of the file written.
WriteFfmetadataChapters(pl, dmap) ==
    <<FFMETADATA1>> \o ChapterBlocks(pl, dmap, 0)

\* The paths a playlist is made of; their stems are a, b.c and x=y.
TrackPaths == {<<"m", "/", "a", ".", "o">>, <<"b", ".", "c", ".", "o">>,
               <<"x", "=", "y">>}

\* Durations in ticks: 0, 0.5 ms, 0.5 s, 15 s, 30 s, 45 s.
TrackTicks == {0, 1, 1000, 30000, 60000, 90000}

InitTracks ==
    /\ PipelineIdle
    /\ \E pl \in UNION {[1..k -> TrackPaths] : k \in 0..MaxPlaylist},
          dmap \in [TrackPaths -> {None} \cup {Some(t) : t \in TrackTicks}] :
          frame = [playlist |-> pl, duration_map |-> dmap,
                   tracklist |-> None, chapters |-> None]

\* pipeline.py 104-110
WriteTracklistCall ==
    /\ "tracklist" \in DOMAIN frame
    /\ frame.tracklist = None
    /\ \E enabled \in BOOLEAN :
          frame' = [frame EXCEPT !.tracklist =
                       Some(WriteTracklist(frame.playlist, frame.duration_map,
                                           enabled))]
    /\ UNCHANGED pipelineVars

\* pipeline.py 149
WriteChaptersCall ==
    /\ "chapters" \in DOMAIN frame
    /\ frame.chapters = None
    /\ frame' = [frame EXCEPT !.chapters =
                    Some(WriteFfmetadataChapters(frame.playlist,
                                                 frame.duration_map))]
    /\ UNCHANGED pipelineVars

NextTracks == WriteTracklistCall \/ WriteChaptersCall

SpecTracks == InitTracks /\ [][NextTracks]_vars

(***************************************************************************)
(* A call _format_timestamp(seconds) on its own.                           *)
(***************************************************************************)
MaxHalfSeconds == 130   \* largest small offset, in half seconds

\* Offsets in ticks: the half seconds up to the bound and those around 1,
\* 99 and 100 hours, each also one tick early and one tick late.
TimestampOffsets ==
    LET halves == (0..MaxHalfSeconds)
                  \cup {h * 7200 + d : h \in {1, 99, 100}, d \in (0 - 3)..3}
    IN {k * (TicksPerSecond \div 2) + e : k \in halves, e \in {0 - 1, 0, 1}}
       \cap Nat

InitTimestamp ==
    /\ PipelineIdle
    /\ \E t \in TimestampOffsets : frame = [seconds |-> t, stamp |-> None]

\* pipeline.py 545-550
FormatTimestampCall ==
    /\ "stamp" \in DOMAIN frame
    /\ frame.stamp = None
    /\ frame' = [frame EXCEPT !.stamp = Some(FormatTimestamp(frame.seconds))]
    /\ UNCHANGED pipelineVars

NextTimestamp == FormatTimestampCall

SpecTimestamp == InitTimestamp /\ [][NextTimestamp]_vars

(***************************************************************************)
(* Properties of the tracklist, the timestamps and the chapters.           *)
(***************************************************************************)
IsDigits(s) == s # <<>> /\ \A i \in DOMAIN s : \E d \in DOMAIN DigitChars : DigitChars[d] = s[i]

DigitValue(c) == (CHOOSE d \in DOMAIN DigitChars : DigitChars[d] = c) - 1

\* The number a string of decimal digits denotes.
RECURSIVE ParseDecimal(_)
ParseDecimal(s) ==
    IF s = <<>> THEN 0
    ELSE 10 * ParseDecimal(Front(s)) + DigitValue(s[Len(s)])

StampFields(stamp) == SplitOn(stamp, {":"})

\* The whole seconds an HH:MM:SS string denotes.
StampSeconds(stamp) ==
    LET f == StampFields(stamp)
    IN ParseDecimal(f[1]) * 3600 + ParseDecimal(f[2]) * 60 + ParseDecimal(f[3])

\* secs is a whole number of seconds nearest to ticks.
NearestSecond(secs, ticks) ==
    /\ 2 * (secs * TicksPerSecond - ticks) <= TicksPerSecond
    /\ 2 * (ticks - secs * TicksPerSecond) <= TicksPerSecond

TracklistWritten == frame.tracklist # None /\ frame.tracklist[1] # None
TracklistLines == frame.tracklist[1][1]

\* The duration the tracklist counts for the i-th playlist element.
TrackTicksAt(i) ==
    IF frame.duration_map[frame.playlist[i]] = None THEN 0
    ELSE frame.duration_map[frame.playlist[i]][1]

\* The sum of the durations of the playlist elements before the i-th.
StartTicks(i) == SumSeq([j \in 1..(i - 1) |-> TrackTicksAt(j)])

\* The text of a tracklist line before and after its first space.
LineStamp(line) == SplitOn(line, {" "})[1]
LineTitle(line) == SubSeq(line, Len(LineStamp(line)) + 2, Len(line))

\* C14: the tracklist has one entry per playlist element, in order; the
\* offset of entry i is the sum of the durations of the elements before it
\* (to the whole second), so the first is at 0 and offsets never decrease;
\* the title is the base name without its extension.
C14_TracklistStarts ==
    TracklistWritten =>
        /\ Len(TracklistLines) = Len(frame.playlist)
        /\ \A i \in DOMAIN TracklistLines :
              /\ NearestSecond(StampSeconds(LineStamp(TracklistLines[i])),
                               StartTicks(i))
              /\ LineTitle(TracklistLines[i]) = Stem(frame.playlist[i])
              /\ "/" \notin {LineTitle(TracklistLines[i])[k] :
                                k \in DOMAIN LineTitle(TracklistLines[i])}
              /\ i = 1 => StampSeconds(LineStamp(TracklistLines[i])) = 0
              /\ i > 1 => StampSeconds(LineStamp(TracklistLines[i - 1]))
                              <= StampSeconds(LineStamp(TracklistLines[i]))

\* Durations 30 s, 45 s, 15 s give 00:00:00, 00:00:30, 00:01:15.
C14_Witness ==
    /\ TracklistWritten
    /\ Len(frame.playlist) = 3
    /\ TrackTicksAt(1) = 30 * TicksPerSecond
    /\ TrackTicksAt(2) = 45 * TicksPerSecond
    /\ TrackTicksAt(3) = 15 * TicksPerSecond
    /\ LineStamp(TracklistLines[1]) = <<"0", "0", ":", "0", "0", ":", "0", "0">>
    /\ LineStamp(TracklistLines[2]) = <<"0", "0", ":", "0", "0", ":", "3", "0">>
    /\ LineStamp(TracklistLines[3]) = <<"0", "0", ":", "0", "1", ":", "1", "5">>
    /\ \E i \in 1..3 : LineTitle(TracklistLines[i]) = <<"b", ".", "c">>

Stamped == frame.stamp # None

\* C15: _format_timestamp(s) is three fields of decimal digits separated by
\* colons, each zero-padded to two digits (minutes and seconds exactly two,
\* hours more only from 100 hours on), minutes and seconds at most 59, that
\* denote s rounded to the nearest whole second.
C15_Timestamp ==
    Stamped =>
        LET f == StampFields(frame.stamp[1])
        IN /\ Len(f) = 3
           /\ \A i \in 1..3 : IsDigits(f[i])
           /\ Len(f[1]) >= 2
           /\ Len(f[1]) > 2 => f[1][1] # "0"
           /\ Len(f[2]) = 2
           /\ Len(f[3]) = 2
           /\ ParseDecimal(f[2]) <= 59
           /\ ParseDecimal(f[3]) <= 59
           /\ NearestSecond(StampSeconds(frame.stamp[1]), frame.seconds)

\* 59.5 s is 00:01:00 (a tie, rounded up to the even second).
C15_Witness ==
    /\ Stamped
    /\ 2 * frame.seconds = 119 * TicksPerSecond
    /\ frame.stamp[1] = <<"0", "0", ":", "0", "1", ":", "0", "0">>

ChaptersWritten == frame.chapters # None
ChapterLines == frame.chapters[1]
ChapterCount == (Len(ChapterLines) - 1) \div 5

\* The text of a line after its first "=".
AfterEquals(line) == SubSeq(line, Len(SplitOn(line, {"="})[1]) + 2, Len(line))

ChapterStartText(b) == AfterEquals(ChapterLines[5 * b - 1])
ChapterEndText(b) == AfterEquals(ChapterLines[5 * b])
ChapterStart(b) == ParseDecimal(ChapterStartText(b))
ChapterEnd(b) == ParseDecimal(ChapterEndText(b))

\* C16: chapter offsets are integer milliseconds, the first chapter starts
\* at 0, every END is the next START and every END is greater than its
\* START, for every playlist and duration map.
C16_ChaptersContiguous ==
    ChaptersWritten =>
        /\ Len(ChapterLines) = 1 + 5 * ChapterCount
        /\ ChapterLines[1] = FFMETADATA1
        /\ \A b \in 1..ChapterCount :
              /\ ChapterLines[5 * b - 3] = CHAPTER
              /\ ChapterLines[5 * b - 2] = TIMEBASE
              /\ SubSeq(ChapterLines[5 * b - 1], 1, Len(START)) = START
              /\ SubSeq(ChapterLines[5 * b], 1, Len(END)) = END
              /\ IsDigits(ChapterStartText(b))
              /\ IsDigits(ChapterEndText(b))
              /\ b = 1 => ChapterStart(b) = 0
              /\ b < ChapterCount => ChapterEnd(b) = ChapterStart(b + 1)
              /\ ChapterEnd(b) > ChapterStart(b)

\* Three chapters, one of a track of duration 0.
C16_Witness ==
    /\ ChaptersWritten
    /\ ChapterCount = 3
    /\ \E i \in 1..3 : frame.duration_map[frame.playlist[i]] = Some(0)
    /\ ChapterEnd(3) > 30000

(***************************************************************************)
(* Drawtext escaping: _escape_drawtext_value (ffmpeg.py 165-166) and       *)
(* escape_drawtext of the style demo (demo_text_styles.py 24-30).          *)
(***************************************************************************)
MaxValue == 4       \* longest drawtext parameter value, characters

\* ffmpeg.py 166
EscapeDrawtextColonFirst(value) ==
    Replace(Replace(Replace(value, ":", <<"\\", ":">>),
                    "\\", <<"\\", "\\">>),
            "'", <<"\\", "'">>)
EscapeDrawtextValue(value) ==
    Replace(Replace(Replace(value, "\\", <<"\\", "\\">>),
                    ":", <<"\\", ":">>),
            "'", <<"\\", "'">>)

\* demo_text_styles.py 24-30
escape_drawtext(value) ==
    LET v1 == Replace(value, "\\", <<"\\", "\\">>)
        v2 == Replace(v1, ":", <<"\\", ":">>)
    IN Replace(v2, "'", <<"\\", "'">>)

DrawtextValues == StringsUpTo({"\\", ":", "'", "a"}, MaxValue)

InitEscape ==
    /\ PipelineIdle
    /\ \E v \in DrawtextValues :
          frame = [value |-> v, escaped |-> None, demo_escaped |-> None]

EscapeValueCall ==
    /\ "escaped" \in DOMAIN frame
    /\ frame.escaped = None
    /\ frame' = [frame EXCEPT !.escaped = Some(EscapeDrawtextValue(frame.value))]
    /\ UNCHANGED pipelineVars

EscapeDemoCall ==
    /\ "demo_escaped" \in DOMAIN frame
    /\ frame.demo_escaped = None
    /\ frame' = [frame EXCEPT !.demo_escaped = Some(escape_drawtext(frame.value))]
    /\ UNCHANGED pipelineVars

NextEscape == EscapeValueCall \/ EscapeDemoCall

SpecEscape == InitEscape /\ [][NextEscape]_vars

(***************************************************************************)
(* Properties of drawtext escaping.                                        *)
(***************************************************************************)
\* s with every occurrence of the two-character string pat, found from the
\* left without overlap, replaced by the character ch.
RECURSIVE Unreplace(_, _, _)
Unreplace(s, pat, ch) ==
    IF Len(s) < 2 THEN s
    ELSE IF SubSeq(s, 1, 2) = pat
         THEN <<ch>> \o Unreplace(SubSeq(s, 3, Len(s)), pat, ch)
         ELSE <<Head(s)>> \o Unreplace(Tail(s), pat, ch)

\* The three escape rules reversed: backslash, then colon, then quote.
UnescapeDrawtext(s) ==
    Unreplace(Unreplace(Unreplace(s, <<"\\", "\\">>, "\\"),
                        <<"\\", ":">>, ":"),
              <<"\\", "'">>, "'")

\* What escaping in the order backslash, colon, quote makes of one
\* character: each special character gets one backslash in front.
EscapedChar(c) == IF c \in {"\\", ":", "'"} THEN <<"\\", c>> ELSE <<c>>

RECURSIVE EscapedChars(_)
EscapedChars(s) ==
    IF s = <<>> THEN <<>> ELSE EscapedChar(Head(s)) \o EscapedChars(Tail(s))

\* C17: escaping substitutes backslash, then colon, then single quote, so
\* that every special character gets exactly one backslash, and reversing
\* the three rules in the same order on the output gives the original back.
C17_EscapeRoundTrip ==
    /\ frame.escaped # None =>
          /\ frame.escaped[1] = EscapedChars(frame.value)
          /\ UnescapeDrawtext(frame.escaped[1]) = frame.value
    /\ frame.demo_escaped # None =>
          /\ frame.demo_escaped[1] = EscapedChars(frame.value)
          /\ UnescapeDrawtext(frame.demo_escaped[1]) = frame.value

\* A value with all three special characters, a backslash first.
C17_Witness ==
    /\ frame.escaped # None
    /\ frame.demo_escaped # None
    /\ {"\\", ":", "'"} \subseteq {frame.value[i] : i \in DOMAIN frame.value}
    /\ frame.value[1] = "\\"
    /\ frame.value[2] = ":"

(***************************************************************************)
(* The filter graph of generate_loop_video_from_image (ffmpeg.py 239-350). *)
(* The value passed to -vf is modelled as the sequence of its tokens: a    *)
(* filter stage, a stream label, "," or ";".  A stage token names the      *)
(* filter and its option keys; the numbers and expressions the source      *)
(* formats into it are left out of the token.                              *)
(***************************************************************************)
MaxEffects == 5     \* most names in the effects argument

SWAY == <<"s", "w", "a", "y">>
FLICKER == <<"f", "l", "i", "c", "k", "e", "r">>
COLOR_DRIFT == <<"c", "o", "l", "o", "r", "_", "d", "r", "i", "f", "t">>
HUE == <<"h", "u", "e">>
VIGNETTE == <<"v", "i", "g", "n", "e", "t", "t", "e">>
STEAM == <<"s", "t", "e", "a", "m">>

\* The names an effects argument is made of: the six names the source
\* knows, one of them also capitalised with a space in front, and "".
EffectNames == {SWAY, FLICKER, COLOR_DRIFT, HUE, VIGNETTE, STEAM,
                <<" ", "S", "t", "e", "a", "m">>, <<>>}

\* The effects arguments: lists of different names.
EffectLists ==
    {l \in UNION {[1..k -> EffectNames] : k \in 0..MaxEffects} :
        \A i, j \in DOMAIN l : i # j => l[i] # l[j]}

\* The values of sway_degrees, flicker_amount and hue_degrees.
EffectAmounts == {0, 1}

\* Lines 281-291.
BaseFilters == <<"scale", "zoompan=z:x:y:d:s:fps">>

\* Line 292.
EffectSet(effects) ==
    {Lower(Strip(effects[i])) : i \in {j \in DOMAIN effects : effects[j] # <<>>}}

\* Lines 293-306.
PostFiltersReversed(effect_set, sway_degrees, flicker_amount, hue_degrees) ==
    (IF VIGNETTE \in effect_set THEN <<"vignette=angle">> ELSE <<>>)
    \o (IF (COLOR_DRIFT \in effect_set \/ HUE \in effect_set) /\ hue_degrees > 0
        THEN <<"hue=h">> ELSE <<>>)
    \o (IF FLICKER \in effect_set /\ flicker_amount > 0
        THEN <<"eq=brightness=sin">> ELSE <<>>)
    \o (IF SWAY \in effect_set /\ sway_degrees > 0
        THEN <<"rotate=sin:c:ow:oh">> ELSE <<>>)
PostFilters(effect_set, sway_degrees, flicker_amount, hue_degrees) ==
    (IF SWAY \in effect_set /\ sway_degrees > 0
     THEN <<"rotate=sin:c:ow:oh">> ELSE <<>>)
    \o (IF FLICKER \in effect_set /\ flicker_amount > 0
        THEN <<"eq=brightness=sin">> ELSE <<>>)
    \o (IF (COLOR_DRIFT \in effect_set \/ HUE \in effect_set) /\ hue_degrees > 0
        THEN <<"hue=h">> ELSE <<>>)
    \o (IF VIGNETTE \in effect_set THEN <<"vignette=angle">> ELSE <<>>)

\* ",".join(stages)
JoinStagesTrailing(stages) ==
    Join([i \in DOMAIN stages |-> <<stages[i]>>], ",") \o <<",">>
JoinStages(stages) == Join([i \in DOMAIN stages |-> <<stages[i]>>], ",")

\* Lines 313-319.
SteamFilters ==
    JoinStages(<<"crop=w:h:x:y", "gblur=sigma:steps", "noise=alls:allf",
                 "eq=brightness=0.04", "colorchannelmixer=aa">>)

\* Lines 322-326.
OverlayChainPostFirst(post_filters) ==
    IF post_filters # <<>>
    THEN JoinStages(post_filters) \o <<",", "[base]", "[steam2]", "overlay=x:y">>
    ELSE <<"[base]", "[steam2]", "overlay=x:y">>
OverlayChain(post_filters) ==
    IF post_filters # <<>>
    THEN <<"[base]", "[steam2]", "overlay=x:y", ",">> \o JoinStages(post_filters)
    ELSE <<"[base]", "[steam2]", "overlay=x:y">>

\* Lines 292-334.
FilterValue(effects, sway_degrees, flicker_amount, hue_degrees) ==
    LET effect_set == EffectSet(effects)
        post_filters == PostFilters(effect_set, sway_degrees, flicker_amount,
                                    hue_degrees)
    IN IF STEAM \in effect_set
       THEN JoinStages(BaseFilters)
            \o <<",", "format=rgba", ",", "split=2", "[base]", "[steam]", ";">>
            \o <<"[steam]">> \o SteamFilters \o <<"[steam2]", ";">>
            \o OverlayChain(post_filters)
       ELSE JoinStages(BaseFilters \o post_filters)

InitEffects ==
    /\ PipelineIdle
    /\ \E e \in EffectLists, sw \in EffectAmounts, fl \in EffectAmounts,
          hu \in EffectAmounts :
          frame = [effects |-> e, sway_degrees |-> sw, flicker_amount |-> fl,
                   hue_degrees |-> hu, filter_value |-> None]

\* generate_loop_video_from_image builds the value of -vf.
BuildFilterValue ==
    /\ "filter_value" \in DOMAIN frame
    /\ frame.filter_value = None
    /\ frame' = [frame EXCEPT !.filter_value =
                    Some(FilterValue(frame.effects, frame.sway_degrees,
                                     frame.flicker_amount, frame.hue_degrees))]
    /\ UNCHANGED pipelineVars

NextEffects == BuildFilterValue

SpecEffects == InitEffects /\ [][NextEffects]_vars

(***************************************************************************)
(* Properties of the filter graph.                                         *)
(***************************************************************************)
GraphBuilt == frame.filter_value # None
Graph == frame.filter_value[1]
Enabled == EffectSet(frame.effects)

Positions(token) == {i \in DOMAIN Graph : Graph[i] = token}

\* Every token a comes before every token b.
Before(a, b) == \A i \in Positions(a), j \in Positions(b) : i < j

Rotate == "rotate=sin:c:ow:oh"
Flicker == "eq=brightness=sin"
HueShift == "hue=h"
Vignette == "vignette=angle"
Overlay == "overlay=x:y"
PostStages == {Rotate, Flicker, HueShift, Vignette}

\* C18: with steam enabled the graph has exactly one split into the two
\* labelled streams and exactly one overlay, every sway, flicker, color
\* drift and vignette stage comes after the overlay, and with steam alone
\* the overlay is the last stage.
C18_SteamComposite ==
    (GraphBuilt /\ STEAM \in Enabled) =>
        /\ Cardinality(Positions("split=2")) = 1
        /\ \A i \in Positions("split=2") :
              Graph[i + 1] = "[base]" /\ Graph[i + 2] = "[steam]"
        /\ Cardinality(Positions(Overlay)) = 1
        /\ \A stage \in PostStages : Before(Overlay, stage)
        /\ Enabled = {STEAM} => Graph[Len(Graph)] = Overlay

\* Vignette named before steam, sway enabled too.
C18_Witness ==
    /\ GraphBuilt
    /\ STEAM \in Enabled
    /\ Len(frame.effects) >= 3
    /\ frame.effects[1] = VIGNETTE
    /\ Positions(Vignette) # {}
    /\ Positions(Rotate) # {}

\* C19 as stated: the stages apply in the order sway, flicker, color drift,
\* vignette, steam compositing.
C19_Original ==
    GraphBuilt =>
        /\ Before(Rotate, Flicker) /\ Before(Rotate, HueShift)
        /\ Before(Rotate, Vignette) /\ Before(Flicker, HueShift)
        /\ Before(Flicker, Vignette) /\ Before(HueShift, Vignette)
        /\ \A stage \in PostStages : Before(stage, Overlay)

\* C19: whatever the order of the names, the stages apply in the order
\* steam compositing, sway, flicker, color drift, vignette, each at most
\* once.
C19_StageOrder ==
    GraphBuilt =>
        /\ Before(Rotate, Flicker) /\ Before(Rotate, HueShift)
        /\ Before(Rotate, Vignette) /\ Before(Flicker, HueShift)
        /\ Before(Flicker, Vignette) /\ Before(HueShift, Vignette)
        /\ \A stage \in PostStages :
              /\ Before(Overlay, stage)
              /\ Cardinality(Positions(stage)) <= 1
        /\ Positions(Overlay) # {} <=> STEAM \in Enabled
        /\ Positions(Rotate) # {} <=> (SWAY \in Enabled /\ frame.sway_degrees > 0)
        /\ Positions(Flicker) # {}
              <=> (FLICKER \in Enabled /\ frame.flicker_amount > 0)
        /\ Positions(HueShift) # {}
              <=> ((HUE \in Enabled \/ COLOR_DRIFT \in Enabled)
                   /\ frame.hue_degrees > 0)
        /\ Positions(Vignette) # {} <=> VIGNETTE \in Enabled

\* All five stages, the names given in the opposite order.
C19_Witness ==
    /\ GraphBuilt
    /\ frame.effects = <<VIGNETTE, HUE, FLICKER, SWAY, STEAM>>
    /\ \A stage \in PostStages \cup {Overlay} : Positions(stage) # {}

(***************************************************************************)
(* The zoom expression of generate_loop_video_from_image (ffmpeg.py        *)
(* 259-277) and its value at an output frame.  Numbers are fixed-point:    *)
(* zoom_amount in hundredths, the weights of a mix in tenths, a sine in    *)
(* ten-thousandths, so a zoom factor is in units of 1/10000000.  An angle  *)
(* is a whole number of twenty-fourths of a turn (PI/12); the expression   *)
(* is evaluated at the frames whose phase is such an angle.                *)
(***************************************************************************)
MaxLoopSeconds == 5     \* longest loop duration, seconds

AmountScale == 100
WeightScale == 10
SineScale == 10000
MixScale == WeightScale * SineScale
ZoomScale == AmountScale * MixScale
FullTurn == 24

\* sin of 0, 15, 30, 45, 60, 75 and 90 degrees, in ten-thousandths.
SineTable == <<0, 2588, 5000, 7071, 8660, 9659, 10000>>

\* sin(angle)
Sin(angle) ==
    LET r == angle % FullTurn
    IN IF r <= 6 THEN SineTable[r + 1]
       ELSE IF r <= 12 THEN SineTable[(12 - r) + 1]
       ELSE IF r <= 18 THEN 0 - SineTable[(r - 12) + 1]
       ELSE 0 - SineTable[(FullTurn - r) + 1]

SMOOTH == <<"s", "m", "o", "o", "t", "h">>
ORBIT == <<"o", "r", "b", "i", "t">>
CINEMATIC == <<"c", "i", "n", "e", "m", "a", "t", "i", "c">>

\* The values of motion_style.
MotionStyles == {SMOOTH, ORBIT, CINEMATIC,
                 <<" ", "C", "i", "n", "e", "m", "a", "t", "i", "c">>,
                 <<"z", "o", "o", "m">>, <<>>}

\* The values of fps and of zoom_amount (0, 0.02 and 0.05).
FpsValues == {0, 1, 5, 13, 30}
ZoomAmounts == {0, 2, 5}

\* Line 259.
Frames(duration_seconds, fps) ==
    IF duration_seconds * fps > 1 THEN duration_seconds * fps ELSE 1

\* Line 260.
Cycle(frames) == IF frames - 1 > 1 THEN frames - 1 ELSE 1

\* Line 263.
Style(motion_style) ==
    IF motion_style # <<>> THEN Lower(Strip(motion_style)) ELSE SMOOTH

\* Lines 264-273: zoom_mix as the list of its terms
\* w*sin(harmonic*(2*PI*on/cycle) + shift).
ZoomMix(style) ==
    IF style = CINEMATIC
    THEN <<[w |-> 7, harmonic |-> 1, shift |-> 0],
           [w |-> 3, harmonic |-> 2, shift |-> 4]>>
    ELSE <<[w |-> 10, harmonic |-> 1, shift |-> 0]>>

\* Line 276.
ZoomBaseOne(zoom_amount) == AmountScale
ZoomBase(zoom_amount) == AmountScale + zoom_amount

\* Lines 259-277: the expression given to zoompan as z.
ZoomExpr(duration_seconds, fps, zoom_amount, motion_style) ==
    [base |-> ZoomBase(zoom_amount), amount |-> zoom_amount,
     mix |-> ZoomMix(Style(motion_style)),
     cycle |-> Cycle(Frames(duration_seconds, fps))]

\* Line 261: 2*PI*on/cycle, for the frames where it is a whole angle.
HasPhase(on, cycle) == (FullTurn * on) % cycle = 0
Phase(on, cycle) == (FullTurn * on) \div cycle

\* The value of a mix at a phase.
RECURSIVE MixValue(_, _)
MixValue(mix, phase) ==
    IF mix = <<>> THEN 0
    ELSE Head(mix).w * Sin(Head(mix).harmonic * phase + Head(mix).shift)
         + MixValue(Tail(mix), phase)

\* The value of the zoom expression at output frame on.
ZoomAt(expr, on) ==
    expr.base * MixScale + expr.amount * MixValue(expr.mix, Phase(on, expr.cycle))

InitMotion ==
    /\ PipelineIdle
    /\ \E d \in 0..MaxLoopSeconds, f \in FpsValues, z \in ZoomAmounts,
          m \in MotionStyles :
          frame = [duration_seconds |-> d, fps |-> f, zoom_amount |-> z,
                   motion_style |-> m, zoom_expr |-> None, on |-> None,
                   zoom |-> None]

\* generate_loop_video_from_image builds the zoom expression.
BuildZoomExpr ==
    /\ "zoom_expr" \in DOMAIN frame
    /\ frame.zoom_expr = None
    /\ frame' = [frame EXCEPT !.zoom_expr =
                    Some(ZoomExpr(frame.duration_seconds, frame.fps,
                                  frame.zoom_amount, frame.motion_style))]
    /\ UNCHANGED pipelineVars

\* zoompan evaluates the expression at an output frame.
EvalZoom ==
    /\ "zoom" \in DOMAIN frame
    /\ frame.zoom_expr # None
    /\ frame.zoom = None
    /\ \E on \in 0..frame.zoom_expr[1].cycle :
          /\ HasPhase(on, frame.zoom_expr[1].cycle)
          /\ frame' = [frame EXCEPT !.on = Some(on),
                                    !.zoom = Some(ZoomAt(frame.zoom_expr[1], on))]
    /\ UNCHANGED pipelineVars

NextMotion == BuildZoomExpr \/ EvalZoom

SpecMotion == InitMotion /\ [][NextMotion]_vars

(***************************************************************************)
(* Properties of the zoom expression.                                      *)
(***************************************************************************)
Zoomed == frame.zoom # None
ZoomValue == frame.zoom[1]
ZoomPhase == Phase(frame.on[1], frame.zoom_expr[1].cycle) % FullTurn
SingleHarmonic == Style(frame.motion_style) # CINEMATIC

\* C20 as stated: with zoom_amount 0.02 every style gives exactly 1.0 at a
\* phase that is a multiple of 2*PI, and orbit and smooth give 1.04 at PI/2.
C20_Original ==
    (Zoomed /\ frame.zoom_amount = 2) =>
        /\ ZoomPhase = 0 => ZoomValue = ZoomScale
        /\ (SingleHarmonic /\ ZoomPhase = 6) => 100 * ZoomValue = 104 * ZoomScale

\* C20: with zoom_amount 0.02 the orbit and smooth styles give 1.02 at a
\* phase that is a multiple of 2*PI, 1.04 at PI/2 and 1.0 at 3*PI/2; the
\* cinematic style gives 1.02 + 0.02*0.3*sin(PI/3), about 1.0252, at a
\* multiple of 2*PI; no style ever gives less than 1.0.
C20_ZoomValues ==
    (Zoomed /\ frame.zoom_amount = 2) =>
        /\ (SingleHarmonic /\ ZoomPhase = 0) => 100 * ZoomValue = 102 * ZoomScale
        /\ (SingleHarmonic /\ ZoomPhase = 6) => 100 * ZoomValue = 104 * ZoomScale
        /\ (SingleHarmonic /\ ZoomPhase = 18) => ZoomValue = ZoomScale
        /\ (~SingleHarmonic /\ ZoomPhase = 0) =>
              /\ ZoomValue > 10251 * (ZoomScale \div 10000)
              /\ ZoomValue < 10253 * (ZoomScale \div 10000)
        /\ ZoomValue >= ZoomScale

\* A smooth or orbit loop of 25 frames, evaluated at its last frame.
C20_Witness ==
    /\ Zoomed
    /\ frame.zoom_amount = 2
    /\ SingleHarmonic
    /\ frame.zoom_expr[1].cycle = 24
    /\ frame.on[1] = 24
    /\ ZoomPhase = 0

(***************************************************************************)
(* build_drawtext_filter (ffmpeg.py 178-217).  The arguments are one       *)
(* record a; an optional argument is None or Some(value).  The result is   *)
(* the string handed to ffmpeg.                                            *)
(***************************************************************************)
\* Truthiness of an optional str.
StrTruthy(opt) == opt # None /\ opt[1] # <<>>

\* f"{key}={value}"
Arg(key, value) == key \o <<"=">> \o value

\* Lines 195-196.
TextfileArg(a) == <<Arg(<<"t", "e", "x", "t", "f", "i", "l", "e">>, EscapeDrawtextValue(a.textfile))>>

\* Lines 197-201.
FontArg(a) ==
    IF a.fontfile # None
    THEN <<Arg(<<"f", "o", "n", "t", "f", "i", "l", "e">>, EscapeDrawtextValue(a.fontfile[1]))>>
    ELSE IF StrTruthy(a.font)
         THEN <<Arg(<<"f", "o", "n", "t">>, EscapeDrawtextValue(a.font[1]))>>
         ELSE <<>>

\* Lines 202-205.
StyleArgs(a) ==
    <<Arg(<<"f", "o", "n", "t", "c", "o", "l", "o", "r">>, a.font_color),
      Arg(<<"f", "o", "n", "t", "s", "i", "z", "e">>, Decimal(a.font_size)),
      Arg(<<"x">>, a.x),
      Arg(<<"y">>, a.y)>>

\* Lines 206-208.
BorderArgs(a) ==
    IF StrTruthy(a.border_color) /\ Truthy(a.border_width)
    THEN <<Arg(<<"b", "o", "r", "d", "e", "r", "c", "o", "l", "o", "r">>, a.border_color[1]),
           Arg(<<"b", "o", "r", "d", "e", "r", "w">>, Decimal(a.border_width[1]))>>
    ELSE <<>>

\* Lines 209-212.
BoxArgs(a) ==
    IF StrTruthy(a.box_color) /\ Truthy(a.box_borderw)
    THEN <<Arg(<<"b", "o", "x">>, <<"1">>),
           Arg(<<"b", "o", "x", "c", "o", "l", "o", "r">>, a.box_color[1]),
           Arg(<<"b", "o", "x", "b", "o", "r", "d", "e", "r", "w">>, Decimal(a.box_borderw[1]))>>
    ELSE <<>>

\* Lines 213-216.
ShadowArgsColorOnly(a) ==
    IF StrTruthy(a.shadow_color)
    THEN <<Arg(<<"s", "h", "a", "d", "o", "w", "c", "o", "l", "o", "r">>, a.shadow_color[1])>>
         \o (IF a.shadow_x # None
             THEN <<Arg(<<"s", "h", "a", "d", "o", "w", "x">>, Decimal(a.shadow_x[1]))>> ELSE <<>>)
         \o (IF a.shadow_y # None
             THEN <<Arg(<<"s", "h", "a", "d", "o", "w", "y">>, Decimal(a.shadow_y[1]))>> ELSE <<>>)
    ELSE <<>>
ShadowArgs(a) ==
    IF StrTruthy(a.shadow_color) /\ a.shadow_x # None /\ a.shadow_y # None
    THEN <<Arg(<<"s", "h", "a", "d", "o", "w", "c", "o", "l", "o", "r">>, a.shadow_color[1]),
           Arg(<<"s", "h", "a", "d", "o", "w", "x">>, Decimal(a.shadow_x[1])),
           Arg(<<"s", "h", "a", "d", "o", "w", "y">>, Decimal(a.shadow_y[1]))>>
    ELSE <<>>

\* Line 217.
DRAWTEXT == <<"d", "r", "a", "w", "t", "e", "x", "t", "=">>

\* Lines 178-217.
BuildDrawtextFilter(a) ==
    DRAWTEXT \o Join(TextfileArg(a) \o FontArg(a) \o StyleArgs(a)
                     \o BorderArgs(a) \o BoxArgs(a) \o ShadowArgs(a), ":")

\* The arguments of a modelled call.
TextfilePaths == {<<"r", "/", "o">>, <<"C", ":", "/", "o">>}
FontChoices ==
    {[fontfile |-> None, font |-> None],
     [fontfile |-> None, font |-> Some(<<>>)],
     [fontfile |-> None, font |-> Some(<<"A", "'", "s">>)],
     [fontfile |-> Some(<<"C", ":", "/", "f">>), font |-> Some(<<"A">>)]}
FontColors == {<<"w">>, <<"w", ":", "1">>}
PositionExprs == {<<"w", "/", "2">>, <<"a", "\\", "b">>}
OptionalColors == {None, Some(<<>>), Some(<<"k">>)}
OptionalWidths == {None, Some(0), Some(4)}

DrawtextArgs ==
    {[textfile |-> tf, fontfile |-> fc.fontfile, font |-> fc.font,
      font_size |-> 64, font_color |-> col, x |-> px, y |-> <<"h", "/", "2">>,
      border_color |-> bc, border_width |-> bw,
      box_color |-> xc, box_borderw |-> xw,
      shadow_color |-> sc, shadow_x |-> sx, shadow_y |-> sy] :
        tf \in TextfilePaths, fc \in FontChoices, col \in FontColors,
        px \in PositionExprs,
        bc \in OptionalColors, bw \in OptionalWidths,
        xc \in {None, Some(<<"k">>)}, xw \in {None, Some(4)},
        sc \in {None, Some(<<"k">>)}, sx \in OptionalWidths,
        sy \in OptionalWidths}

InitDrawtext ==
    /\ PipelineIdle
    /\ \E a \in DrawtextArgs : frame = [drawtext_args |-> a, drawtext |-> None]

BuildDrawtextCall ==
    /\ "drawtext" \in DOMAIN frame
    /\ frame.drawtext = None
    /\ frame' = [frame EXCEPT !.drawtext =
                    Some(BuildDrawtextFilter(frame.drawtext_args))]
    /\ UNCHANGED pipelineVars

NextDrawtext == BuildDrawtextCall

SpecDrawtext == InitDrawtext /\ [][NextDrawtext]_vars

(***************************************************************************)
(* Properties of build_drawtext_filter.                                    *)
(***************************************************************************)
DrawtextBuilt == frame.drawtext # None
DrawtextIn == frame.drawtext_args

\* The number of backslashes directly in front of position i of s.
BackslashRun(s, i) ==
    CHOOSE n \in 0..(i - 1) :
        /\ \A k \in 1..n : s[i - k] = "\\"
        /\ n = i - 1 \/ s[i - n - 1] # "\\"

\* The positions where ffmpeg splits an option list: the colons that no
\* backslash escapes.
OptionCuts(s) ==
    {i \in DOMAIN s : s[i] = ":" /\ BackslashRun(s, i) % 2 = 0}

\* The pieces of s between those positions.
SplitOptions(s) ==
    LET cuts == OptionCuts(s) \cup {0, Len(s) + 1}
        cut(j) == CHOOSE c \in cuts : Cardinality({d \in cuts : d < c}) = j
    IN [j \in 1..(Cardinality(cuts) - 1) |->
           SubSeq(s, cut(j - 1) + 1, cut(j) - 1)]

\* The options of the filter built, after "drawtext=".
DrawtextOptions ==
    SplitOptions(SubSeq(frame.drawtext[1], Len(DRAWTEXT) + 1,
                        Len(frame.drawtext[1])))

HasEquals(opt) == \E i \in DOMAIN opt : opt[i] = "="
OptionKey(opt) == SplitOn(opt, {"="})[1]
OptionValue(opt) == SubSeq(opt, Len(OptionKey(opt)) + 2, Len(opt))

\* The keys of the filter built.
DrawtextKeys ==
    {OptionKey(DrawtextOptions[i]) :
        i \in {j \in DOMAIN DrawtextOptions : HasEquals(DrawtextOptions[j])}}

BorderKeys == {<<"b", "o", "r", "d", "e", "r", "c", "o", "l", "o", "r">>, <<"b", "o", "r", "d", "e", "r", "w">>}
BoxKeys == {<<"b", "o", "x">>, <<"b", "o", "x", "c", "o", "l", "o", "r">>, <<"b", "o", "x", "b", "o", "r", "d", "e", "r", "w">>}
ShadowKeys == {<<"s", "h", "a", "d", "o", "w", "c", "o", "l", "o", "r">>, <<"s", "h", "a", "d", "o", "w", "x">>, <<"s", "h", "a", "d", "o", "w", "y">>}

\* All keys of a sub-stage are in the filter, or none is.
AllOrNone(keys) == keys \subseteq DrawtextKeys \/ keys \cap DrawtextKeys = {}

\* A parameter of the sub-stage is not given.
BorderPartial == DrawtextIn.border_color = None \/ DrawtextIn.border_width = None
BoxPartial == DrawtextIn.box_color = None \/ DrawtextIn.box_borderw = None
ShadowPartial ==
    \/ DrawtextIn.shadow_color = None
    \/ DrawtextIn.shadow_x = None
    \/ DrawtextIn.shadow_y = None

\* C21: the keys of the border, of the box and of the shadow are emitted
\* all together or not at all, and only when every parameter of the
\* sub-stage is given; a sub-stage with a parameter missing adds no key.
C21_AllOrNothing ==
    DrawtextBuilt =>
        /\ AllOrNone(BorderKeys) /\ AllOrNone(BoxKeys) /\ AllOrNone(ShadowKeys)
        /\ BorderPartial => BorderKeys \cap DrawtextKeys = {}
        /\ BoxPartial => BoxKeys \cap DrawtextKeys = {}
        /\ ShadowPartial => ShadowKeys \cap DrawtextKeys = {}

\* A shadow colour with one offset only, next to a complete border and box.
C21_Witness ==
    /\ DrawtextBuilt
    /\ DrawtextIn.shadow_color # None
    /\ DrawtextIn.shadow_x # None
    /\ DrawtextIn.shadow_y = None
    /\ ShadowKeys \cap DrawtextKeys = {}
    /\ BorderKeys \subseteq DrawtextKeys
    /\ BoxKeys \subseteq DrawtextKeys

\* The value the filter built gives the key, as written in the filter.
WrittenValue(key) ==
    OptionValue(DrawtextOptions[CHOOSE i \in DOMAIN DrawtextOptions :
                                    /\ HasEquals(DrawtextOptions[i])
                                    /\ OptionKey(DrawtextOptions[i]) = key])

\* The filter gives the key the value, escaped.
WritesEscaped(key, value) ==
    /\ key \in DrawtextKeys
    /\ WrittenValue(key) = EscapedChars(value)

\* C27: in the filter built every parameter value (text file path, font
\* reference, colours, position expressions) has its backslashes, colons and
\* single quotes escaped, and the text is referenced through textfile only.
C27_Original ==
    DrawtextBuilt =>
        /\ \A i \in DOMAIN DrawtextOptions : HasEquals(DrawtextOptions[i])
        /\ <<"t", "e", "x", "t">> \notin DrawtextKeys
        /\ WritesEscaped(<<"t", "e", "x", "t", "f", "i", "l", "e">>, DrawtextIn.textfile)
        /\ DrawtextIn.fontfile # None =>
              WritesEscaped(<<"f", "o", "n", "t", "f", "i", "l", "e">>, DrawtextIn.fontfile[1])
        /\ (DrawtextIn.fontfile = None /\ StrTruthy(DrawtextIn.font)) =>
              WritesEscaped(<<"f", "o", "n", "t">>, DrawtextIn.font[1])
        /\ WritesEscaped(<<"f", "o", "n", "t", "c", "o", "l", "o", "r">>, DrawtextIn.font_color)
        /\ WritesEscaped(<<"x">>, DrawtextIn.x)
        /\ WritesEscaped(<<"y">>, DrawtextIn.y)

(***************************************************************************)
(* The form of the filter graph.                                           *)
(***************************************************************************)
Separators == {",", ";"}
Labels == {"[base]", "[steam]", "[steam2]"}

\* The post-filter stages the arguments ask for, in the order of the
\* source.
ExpectedPost ==
    (IF SWAY \in Enabled /\ frame.sway_degrees > 0 THEN <<Rotate>> ELSE <<>>)
    \o (IF FLICKER \in Enabled /\ frame.flicker_amount > 0
        THEN <<Flicker>> ELSE <<>>)
    \o (IF (HUE \in Enabled \/ COLOR_DRIFT \in Enabled) /\ frame.hue_degrees > 0
        THEN <<HueShift>> ELSE <<>>)
    \o (IF VIGNETTE \in Enabled THEN <<Vignette>> ELSE <<>>)

\* The flat chain of the given stages: the stages with a comma between
\* each two.
FlatChain(stages) ==
    [i \in 1..(2 * Len(stages) - 1) |->
        IF i % 2 = 1 THEN stages[(i + 1) \div 2] ELSE ","]

\* C22: the graph begins with the scale stage and the zoompan stage, has no
\* comma at either end and no empty stage, and without steam it is one flat
\* comma-separated chain, without ";" and stream labels, of the base stages
\* and the post-filters in order.
C22_GraphForm ==
    GraphBuilt =>
        /\ Graph[1] = "scale"
        /\ Graph[2] = ","
        /\ Graph[3] = "zoompan=z:x:y:d:s:fps"
        /\ Graph[Len(Graph)] \notin Separators
        /\ \A i \in 1..(Len(Graph) - 1) :
              Graph[i] \in Separators =>
                  Graph[i + 1] \notin Separators
        /\ STEAM \notin Enabled =>
              /\ \A i \in DOMAIN Graph : Graph[i] \notin Labels \cup {";"}
              /\ Graph = FlatChain(<<"scale", "zoompan=z:x:y:d:s:fps">>
                                   \o ExpectedPost)

\* No steam and all four post-filters, the names in the opposite order.
C22_Witness ==
    /\ GraphBuilt
    /\ STEAM \notin Enabled
    /\ frame.effects # <<>>
    /\ frame.effects[1] = VIGNETTE
    /\ Len(ExpectedPost) = 4
    /\ Len(Graph) = 11


\* ---------------------------------------------------------------------------
\* generate_loop_video_from_image: the numeric parameters written into the
\* expressions (src/src/utils/ffmpeg.py, lines 276-320).  Amounts, degrees,
\* opacity, blur, noise and drift are in hundredths; the sway angle written
\* is in microradians.
\* ---------------------------------------------------------------------------

\* Python max and min of two numbers.
Max(a, b) == IF a > b THEN a ELSE b

Min(a, b) == IF a < b THEN a ELSE b

\* int() of a number in hundredths: truncation toward zero.
IntTrunc(h) == IF h >= 0 THEN h \div 100 ELSE -((-h) \div 100)

\* math.radians of hundredths of a degree, in microradians (line 296).
Radians(h) == (h * 174533) \div 1000

\* Lines 277-279: zoom_amount and pan_amount are formatted as passed.
ZoomAmplitude(zoom_amount) == zoom_amount

PanAmplitude(pan_amount) == pan_amount

\* Lines 295-297: the sway stage exists for a positive angle only.
SwayAmplitude(on, sway_degrees) ==
    IF on /\ sway_degrees > 0 THEN Some(Radians(sway_degrees)) ELSE None

\* Lines 299-300.
FlickerAmplitude(on, flicker_amount) ==
    IF on /\ flicker_amount > 0 THEN Some(flicker_amount) ELSE None

\* Lines 301-302.
HueAmplitude(on, hue_degrees) ==
    IF on /\ hue_degrees > 0 THEN Some(hue_degrees) ELSE None

\* Line 307.
SteamOpacity(steam_opacity) == Max(0, Min(steam_opacity, 100))

\* Line 308.
SteamBlur(steam_blur) == Max(steam_blur, 0)

\* Line 309: a whole number.
SteamNoise(steam_noise) == Max(IntTrunc(steam_noise), 0)

\* Lines 310-311.
SteamDrift(steam_drift) == Max(steam_drift, 0)

\* Lines 306-322: the steam numbers exist only with the steam effect.
SteamParameters(p) ==
    IF p.steam
    THEN Some([colorchannelmixer_aa |-> SteamOpacity(p.steam_opacity),
               gblur_sigma |-> SteamBlur(p.steam_blur),
               noise_alls |-> SteamNoise(p.steam_noise),
               overlay_x |-> SteamDrift(p.steam_drift_x),
               overlay_y |-> SteamDrift(p.steam_drift_y)])
    ELSE None

\* The numbers of the filter value, by the place they are written to.
ExpressionParameters(p) ==
    [zoom |-> ZoomAmplitude(p.zoom_amount),
     pan |-> PanAmplitude(p.pan_amount),
     rotate |-> SwayAmplitude(p.post, p.sway_degrees),
     brightness |-> FlickerAmplitude(p.post, p.flicker_amount),
     hue |-> HueAmplitude(p.post, p.hue_degrees),
     steam |-> SteamParameters(p)]

\* Inputs: the defaults of lines 244-257 and of the pipeline's call, zero,
\* negative values and values above the range.
ZoomInputs == {-2, 0, 2}

PanInputs == {-1, 0, 1}

SwayInputs == {-35, 0, 35}

FlickerInputs == {-2, 0, 2}

HueInputs == {-100, 0, 100}

OpacityInputs == {-8, 8, 150}

BlurInputs == {-1000, 1000}

NoiseInputs == {-150, 1250}

DriftInputs == {-5, 2}

LoopParameters ==
    [zoom_amount : ZoomInputs, pan_amount : PanInputs, post : BOOLEAN,
     sway_degrees : SwayInputs, flicker_amount : FlickerInputs,
     hue_degrees : HueInputs, steam : BOOLEAN,
     steam_opacity : OpacityInputs, steam_blur : BlurInputs,
     steam_noise : NoiseInputs, steam_drift_x : DriftInputs,
     steam_drift_y : {5}]

InitParameters ==
    /\ PipelineIdle
    /\ \E p \in LoopParameters : frame = [parameters |-> p, written |-> None]

\* generate_loop_video_from_image formats the numbers into the filter value.
WriteParameters ==
    /\ "written" \in DOMAIN frame
    /\ frame.written = None
    /\ frame' = [frame EXCEPT
                    !.written = Some(ExpressionParameters(frame.parameters))]
    /\ UNCHANGED pipelineVars

NextParameters == WriteParameters

SpecParameters == InitParameters /\ [][NextParameters]_vars

ParametersWritten == "written" \in DOMAIN frame /\ frame.written # None

Written == frame.written[1]

NonNegative(opt) == opt # None => opt[1] >= 0

\* C23: every amplitude, opacity, noise and blur number written into the
\* filter value is non-negative, and the steam opacity is between 0 and 1.
C23_Original ==
    ParametersWritten =>
        /\ Written.zoom >= 0
        /\ Written.pan >= 0
        /\ NonNegative(Written.rotate)
        /\ NonNegative(Written.brightness)
        /\ NonNegative(Written.hue)
        /\ Written.steam # None =>
              /\ Written.steam[1].colorchannelmixer_aa \in 0..100
              /\ Written.steam[1].gblur_sigma >= 0
              /\ Written.steam[1].noise_alls >= 0
              /\ Written.steam[1].overlay_x >= 0
              /\ Written.steam[1].overlay_y >= 0


\* ---------------------------------------------------------------------------
\* The vignette angle: _format_vignette_angle (src/src/utils/ffmpeg.py, lines
\* 353-359) and the dashboard's safe_float (src/streamlit_app.py, lines
\* 646-679).  A float is a whole number of 1/AngleScale.
\* ---------------------------------------------------------------------------
MaxAngleText == 4       \* longest configured angle string

AngleScale == 10000

\* math.pi
Pi == 31416

\* A configured value is None, a number or a str.
NONE == "none"

NUMBER == "number"

STR == "str"

NoValue == [kind |-> NONE, number |-> 0, text |-> <<>>]

NumberValue(n) == [kind |-> NUMBER, number |-> n, text |-> <<>>]

StrValue(s) == [kind |-> STR, number |-> 0, text |-> s]

\* str.upper() on one character.
UpperChar(c) ==
    IF \E i \in DOMAIN LowerCase : LowerCase[i] = c
    THEN UpperCase[CHOOSE i \in DOMAIN LowerCase : LowerCase[i] = c]
    ELSE c

\* re.sub(r"\s+", "", text).upper() (streamlit_app.py, line 659).
Normalized(text) ==
    LET kept == SelectSeq(text, LAMBDA c : c \notin Whitespace)
    IN  [i \in DOMAIN kept |-> UpperChar(kept[i])]

FloatChars == {DigitChars[d] : d \in DOMAIN DigitChars} \cup {"."}

\* int() of a string of digits, 0 for the empty string.
RECURSIVE DigitsValue(_)
DigitsValue(s) ==
    IF s = <<>> THEN 0
    ELSE 10 * DigitsValue(Front(s))
         + (CHOOSE d \in DOMAIN DigitChars : DigitChars[d] = s[Len(s)]) - 1

\* float(text) of an unsigned decimal: None stands for ValueError.
Float(text) ==
    LET dots == {i \in DOMAIN text : text[i] = "."}
        dot == IF dots = {} THEN Len(text) + 1 ELSE CHOOSE i \in dots : TRUE
        fraction == SubSeq(SubSeq(text, dot + 1, Len(text))
                           \o <<"0", "0", "0", "0">>, 1, 4)
    IN  IF /\ \A i \in DOMAIN text : text[i] \in FloatChars
           /\ Cardinality(dots) <= 1
           /\ \E i \in DOMAIN text : text[i] # "."
        THEN Some(AngleScale * DigitsValue(SubSeq(text, 1, dot - 1))
                  + DigitsValue(fraction))
        ELSE None

\* math.pi * number and number * math.pi
TimesPi(number) ==
    (number \div AngleScale) * Pi + ((number % AngleScale) * Pi) \div AngleScale

\* math.pi / number, number # 0
PiOver(number) == (Pi * AngleScale) \div number

\* number / math.pi
OverPi(number) ==
    (number \div Pi) * AngleScale + ((number % Pi) * AngleScale) \div Pi

FloatResult(v) == [raised |-> FALSE, v |-> v]

ZeroDivisionError == [raised |-> TRUE, v |-> 0]

\* r"^PI([/*])([0-9.]+)$" and r"^([0-9.]+)([/*])PI$" (lines 662, 670).
Operators == {"/", "*"}

IsNumStr(s) == s # <<>> /\ \A i \in DOMAIN s : s[i] \in FloatChars

MatchPiFirst(s) ==
    /\ Len(s) >= 4
    /\ SubSeq(s, 1, 2) = <<"P", "I">>
    /\ s[3] \in Operators
    /\ IsNumStr(SubSeq(s, 4, Len(s)))

MatchPiLast(s) ==
    /\ Len(s) >= 4
    /\ SubSeq(s, Len(s) - 1, Len(s)) = <<"P", "I">>
    /\ s[Len(s) - 2] \in Operators
    /\ IsNumStr(SubSeq(s, 1, Len(s) - 3))

\* Lines 659-678, after float(text) raised ValueError.
PiExpression(normalized, default) ==
    IF normalized = <<"P", "I">> THEN FloatResult(Pi)
    ELSE IF MatchPiFirst(normalized)
    THEN LET number == Float(SubSeq(normalized, 4, Len(normalized)))
         IN  IF number = None THEN FloatResult(default)
             ELSE IF normalized[3] = "/"
             THEN IF number[1] = 0 THEN ZeroDivisionError
                  ELSE FloatResult(PiOver(number[1]))
             ELSE FloatResult(TimesPi(number[1]))
    ELSE IF MatchPiLast(normalized)
    THEN LET number == Float(SubSeq(normalized, 1, Len(normalized) - 3))
         IN  IF number = None THEN FloatResult(default)
             ELSE IF normalized[Len(normalized) - 2] = "/"
             THEN FloatResult(OverPi(number[1]))
             ELSE FloatResult(TimesPi(number[1]))
    ELSE FloatResult(default)

\* safe_float(value, default)
safe_float(value, default) ==
    IF value.kind = NONE THEN FloatResult(default)
    ELSE IF value.kind = NUMBER THEN FloatResult(value.number)
    ELSE LET text == Strip(value.text)
         IN  IF text = <<>> THEN FloatResult(default)
             ELSE IF Float(text) # None THEN FloatResult(Float(text)[1])
             ELSE PiExpression(Normalized(text), default)

\* f"{n:04d}" for 0 <= n < 10000
Pad4(n) ==
    LET digits == Decimal(n)
    IN  SubSeq(<<"0", "0", "0">>, 1, 4 - Len(digits)) \o digits

\* f"{float(value):.4f}" for value >= 0 (ffmpeg.py, line 357).
FormatFixed4(number) ==
    Decimal(number \div AngleScale) \o <<".">> \o Pad4(number % AngleScale)

\* Line 355 and line 359.
DefaultAngle == <<"P", "I", "/", "5">>

\* _format_vignette_angle(value)
FormatVignetteAngle(value) ==
    IF value.kind = NONE THEN DefaultAngle
    ELSE IF value.kind = NUMBER THEN FormatFixed4(value.number)
    ELSE IF Strip(value.text) # <<>> THEN Strip(value.text)
    ELSE DefaultAngle

\* The dashboard's default (streamlit_app.py, line 1614).
DashboardDefault == 6300

AngleAlphabet == {"P", "i", "/", "*", "5", "0", ".", " "}

AngleNumbers == {0, 2000, 6283, 6300, 15000}

AngleValues ==
    {NoValue} \cup {NumberValue(n) : n \in AngleNumbers}
    \cup {StrValue(s) : s \in StringsUpTo(AngleAlphabet, MaxAngleText)}

CONFIG == "config"

DASHBOARD == "dashboard"

\* visuals.loop_vignette_angle as written in the configuration file, or as
\* held by the dashboard before it builds the configuration.
InitVignette ==
    /\ PipelineIdle
    /\ \E v \in AngleValues, via \in {CONFIG, DASHBOARD} :
          frame = [configured |-> v, vignette_angle |-> v, via |-> via,
                   saved |-> via = CONFIG,
                   raised |-> FALSE, vignette_expr |-> None]

\* The dashboard builds the configuration: safe_float(..., 0.63).
DashboardSave ==
    /\ "vignette_expr" \in DOMAIN frame
    /\ ~frame.saved
    /\ ~frame.raised
    /\ LET result == safe_float(frame.vignette_angle, DashboardDefault)
       IN  frame' = IF result.raised
                    THEN [frame EXCEPT !.raised = TRUE]
                    ELSE [frame EXCEPT !.saved = TRUE,
                                       !.vignette_angle = NumberValue(result.v)]
    /\ UNCHANGED pipelineVars

\* generate_loop_video_from_image with the vignette effect (lines 303-305).
FormatVignette ==
    /\ "vignette_expr" \in DOMAIN frame
    /\ frame.saved
    /\ frame.vignette_expr = None
    /\ frame' = [frame EXCEPT
                    !.vignette_expr = Some(FormatVignetteAngle(frame.vignette_angle))]
    /\ UNCHANGED pipelineVars

NextVignette == DashboardSave \/ FormatVignette

SpecVignette == InitVignette /\ [][NextVignette]_vars


VignetteEmitted == "vignette_expr" \in DOMAIN frame /\ frame.vignette_expr # None

VignetteExpr == frame.vignette_expr[1]

\* An unsigned decimal literal.
IsNumberText(s) ==
    /\ \A i \in DOMAIN s : s[i] \in FloatChars
    /\ Cardinality({i \in DOMAIN s : s[i] = "."}) <= 1
    /\ \E i \in DOMAIN s : s[i] # "."

\* PI alone, or PI and a number joined by / or *, in either order.
IsPiText(s) ==
    \/ s = <<"P", "I">>
    \/ /\ Len(s) >= 4
       /\ SubSeq(s, 1, 2) = <<"P", "I">>
       /\ s[3] \in {"/", "*"}
       /\ IsNumberText(SubSeq(s, 4, Len(s)))
    \/ /\ Len(s) >= 4
       /\ SubSeq(s, Len(s) - 1, Len(s)) = <<"P", "I">>
       /\ s[Len(s) - 2] \in {"/", "*"}
       /\ IsNumberText(SubSeq(s, 1, Len(s) - 3))

\* A literal number, or a fraction-of-PI expression in any letter case and
\* with any spacing.
WellFormedAngle(s) ==
    LET compact == SelectSeq(s, LAMBDA c : c \notin Whitespace)
    IN  \/ IsNumberText(Strip(s))
        \/ IsPiText([i \in DOMAIN compact |-> UpperChar(compact[i])])

\* "PI/5" and the dashboard's 0.63 as formatted.
DefaultAngles == {<<"P", "I", "/", "5">>, <<"0", ".", "6", "3", "0", "0">>}

\* C24: the emitted vignette strength is a well-formed angle; a configured
\* number is emitted as that number, and an absent or malformed value gives
\* the default constant.
C24_Original ==
    VignetteEmitted =>
        /\ WellFormedAngle(VignetteExpr)
        /\ frame.configured.kind = NONE => VignetteExpr \in DefaultAngles
        /\ frame.configured.kind = NUMBER =>
              VignetteExpr = FormatFixed4(frame.configured.number)
        /\ (frame.configured.kind = STR
            /\ ~WellFormedAngle(frame.configured.text)) =>
              VignetteExpr \in DefaultAngles


\* ---------------------------------------------------------------------------
\* generate_loop_video_from_image: the divisors of the expressions
\* (src/src/utils/ffmpeg.py, lines 259-262 and 293).  The period is in tenths
\* of a second.
\* ---------------------------------------------------------------------------
MaxFps == 30            \* highest frame rate

PeriodUnclamped(duration_seconds) == 10 * duration_seconds

\* Line 293.
Period(duration_seconds) == Max(10 * duration_seconds, 1)

\* Lines 259-262 and 293: on/{cycle} in the phases, t/{period} in the effects.
Divisors(duration_seconds, fps) ==
    [frames |-> Frames(duration_seconds, fps),
     cycle |-> Cycle(Frames(duration_seconds, fps)),
     period |-> Period(duration_seconds)]

InitDivisors ==
    /\ PipelineIdle
    /\ \E d \in -1..MaxLoopSeconds, f \in 0..MaxFps :
          frame = [duration_seconds |-> d, fps |-> f, divisors |-> None]

\* generate_loop_video_from_image computes frames, cycle and period.
ComputeDivisors ==
    /\ "divisors" \in DOMAIN frame
    /\ frame.divisors = None
    /\ frame' = [frame EXCEPT
                    !.divisors = Some(Divisors(frame.duration_seconds, frame.fps))]
    /\ UNCHANGED pipelineVars

NextDivisors == ComputeDivisors

SpecDivisors == InitDivisors /\ [][NextDivisors]_vars

DivisorsComputed == "divisors" \in DOMAIN frame /\ frame.divisors # None

\* C29: for every loop duration and frame rate the frame count is at least 1,
\* the phase cycle divisor is at least 1 and the effect period is at least
\* 0.1 second.
C29_DivisorsNonZero ==
    DivisorsComputed =>
        /\ frame.divisors[1].frames >= 1
        /\ frame.divisors[1].cycle >= 1
        /\ frame.divisors[1].period >= 1

\* A zero duration and a zero frame rate: one frame, cycle 1, period 0.1.
C29_Witness ==
    /\ DivisorsComputed
    /\ frame.duration_seconds = 0
    /\ frame.fps = 0
    /\ frame.divisors[1] = [frames |-> 1, cycle |-> 1, period |-> 1]


(***************************************************************************)
(* run_once after enforcement (pipeline.py:100-183): visuals, overlay,     *)
(* tracklist, thumbnail, render, chapters and upload.  The locals of these *)
(* lines are the fields of frame.  The paths 1..n of the run stand for the *)
(* files RunPaths[1..n]; durations become ticks.                           *)
(***************************************************************************)
\* The stems are a, x=y, b.c and d.
RunPaths == <<<<"m", "/", "a", ".", "o">>, <<"x", "=", "y">>, <<"b", ".", "c", ".", "o">>, <<"d", ".", "o">>>>

\* The playlist passed to _write_tracklist and write_ffmetadata_chapters.
RunPlaylistShort(pl) == [i \in 1..(Len(pl) - 1) |-> RunPaths[pl[i]]]
RunPlaylist(pl) == [i \in DOMAIN pl |-> RunPaths[pl[i]]]

\* The duration map of line 65: every collected file has an entry.
RunDurationMapPartial(dmap) ==
    [p \in {RunPaths[i] : i \in DOMAIN dmap} |->
        IF p = RunPaths[1] THEN Some(TicksPerSecond * dmap[1]) ELSE None]
RunDurationMap(dmap) ==
    [p \in {RunPaths[i] : i \in DOMAIN dmap} |->
        Some(TicksPerSecond * dmap[CHOOSE i \in DOMAIN dmap : RunPaths[i] = p])]

\* The configurations of a run: text_overlay.text and auto_texts, the
\* overlay's apply_to_video, create_thumbnail and upload_thumbnail,
\* tracklist.enabled and tracklist.embed_chapters.  Nothing configured (the
\* defaults); blank candidates and no tracklist; a text with the default
\* flags and no chapters; a text for an uploaded thumbnail only.
NoCandidates == [kind |-> "list", v |-> <<>>]

BlankCandidates == [kind |-> "list", v |-> << <<" ">> >>]

RunConfigs ==
    {[text |-> <<>>, auto_texts |-> NoCandidates, apply_to_video |-> TRUE,
      create_thumbnail |-> TRUE, upload_thumbnail |-> FALSE,
      tracklist_enabled |-> TRUE, embed_chapters |-> TRUE],
     [text |-> <<>>, auto_texts |-> BlankCandidates, apply_to_video |-> TRUE,
      create_thumbnail |-> TRUE, upload_thumbnail |-> TRUE,
      tracklist_enabled |-> FALSE, embed_chapters |-> TRUE],
     [text |-> <<"A">>, auto_texts |-> NoCandidates, apply_to_video |-> TRUE,
      create_thumbnail |-> TRUE, upload_thumbnail |-> FALSE,
      tracklist_enabled |-> TRUE, embed_chapters |-> FALSE],
     [text |-> <<"A">>, auto_texts |-> NoCandidates, apply_to_video |-> FALSE,
      create_thumbnail |-> TRUE, upload_thumbnail |-> TRUE,
      tracklist_enabled |-> TRUE, embed_chapters |-> TRUE]}

\* Lines 449-484: _build_text_overlay returns None for an empty text;
\* otherwise it writes overlay.txt and returns the settings.
BuildTextOverlayAlways(text, cfg) ==
    Some([apply_to_video |-> cfg.apply_to_video,
          create_thumbnail |-> cfg.create_thumbnail,
          upload_thumbnail |-> cfg.upload_thumbnail])
BuildTextOverlay(text, cfg) ==
    IF text = <<>> THEN None
    ELSE Some([apply_to_video |-> cfg.apply_to_video,
               create_thumbnail |-> cfg.create_thumbnail,
               upload_thumbnail |-> cfg.upload_thumbnail])

\* The text written to overlay.txt, if any (lines 458-459).
OverlayTextfile(text) == IF text = <<>> THEN None ELSE Some(text)

\* The style of lines 460-480 with nothing configured.
OverlayArgs ==
    [textfile |-> <<"r", "/", "o">>, fontfile |-> None, font |-> None,
     font_size |-> 96, font_color |-> <<"w", "h", "i", "t", "e">>,
     x |-> <<"(", "w", "-", "t", "e", "x", "t", "_", "w", ")", "/", "2">>,
     y |-> <<"(", "h", "-", "t", "e", "x", "t", "_", "h", ")", "/", "2">>,
     border_color |-> Some(<<"b", "l", "a", "c", "k">>), border_width |-> Some(4),
     box_color |-> None, box_borderw |-> None,
     shadow_color |-> None, shadow_x |-> None, shadow_y |-> None]

\* Lines 111-129.
DrawtextFilter(overlay) ==
    IF overlay # None THEN Some(BuildDrawtextFilter(OverlayArgs)) ELSE None

\* Lines 130-132.
CreatesThumbnail(overlay) == overlay # None /\ overlay[1].create_thumbnail

\* Line 144: drawtext_filter if overlay and overlay["apply_to_video"]
\* else None
RenderDrawtext(overlay, drawtext_filter) ==
    IF overlay # None /\ overlay[1].apply_to_video
    THEN drawtext_filter ELSE None

\* Lines 174-179, before upload_result.video_id is read.
WantsThumbnailUpload(overlay, thumbnail) ==
    overlay # None /\ overlay[1].upload_thumbnail /\ thumbnail

\* Line 178: and upload_result.video_id
HasVideoIdAlways(id) == TRUE
HasVideoId(id) == id # <<>>

\* The ids upload_video returns: none (None or "") or one.
VideoIds == {<<>>, <<"v">>}

\* The steps the calls of lines 103-132 add to the trace.
OverlayCalls(overlay, enabled) ==
    (IF overlay # None THEN <<"overlay_txt">> ELSE <<>>)
    \o (IF enabled THEN <<"tracklist">> ELSE <<>>)
    \o (IF CreatesThumbnail(overlay) THEN <<"thumbnail">> ELSE <<>>)

\* Lines 100-102: the overlay text is resolved, the image and the loop
\* video are located or generated.
PrepareVisuals ==
    /\ pc = "visuals"
    /\ calls' = Append(calls, "visuals")
    /\ \E cfg \in RunConfigs, ok \in BOOLEAN :
          IF ~ok
          THEN /\ Fail("RuntimeError: Image not found")
               /\ UNCHANGED frame
          ELSE /\ frame' = [config |-> cfg,
                            overlay_text |->
                                ResolveOverlayText(cfg.text, cfg.auto_texts,
                                                   DAILY, 1, 1),
                            overlay |-> None, textfile |-> None,
                            tracklist |-> None, drawtext_filter |-> None,
                            thumbnail |-> FALSE, render_drawtext |-> None,
                            chapters |-> None, video_id |-> None,
                            thumbnail_set |-> "none"]
               /\ pc' = "overlay"
               /\ UNCHANGED error
    /\ UNCHANGED <<caller, args, test_cfg, test_enabled, test_minutes,
                   repeat_playlist, disable_upload, audio_files, duration_map,
                   target_min, min_cfg, playlist, total, index, total_seconds,
                   probed_total, max_cfg, max_seconds, audio_path, trim_to,
                   render_duration, upload_enabled>>

\* Lines 103-132: the overlay is built, the tracklist written, the drawtext
\* filter built and the thumbnail rendered.
BuildOverlay ==
    /\ pc = "overlay"
    /\ \E ok \in BOOLEAN :
          LET overlay == BuildTextOverlay(frame.overlay_text, frame.config)
              enabled == frame.config.tracklist_enabled
              written == [frame EXCEPT
                  !.overlay = overlay,
                  !.textfile = OverlayTextfile(frame.overlay_text),
                  !.tracklist = Some(WriteTracklist(RunPlaylist(playlist),
                                         RunDurationMap(duration_map), enabled)),
                  !.drawtext_filter = DrawtextFilter(overlay)]
          IN  /\ calls' = calls \o OverlayCalls(overlay, enabled)
              /\ IF ~ok
                 THEN /\ CreatesThumbnail(overlay)
                      /\ Fail("RuntimeError: ffmpeg failed")
                      /\ frame' = written
                 ELSE /\ frame' = [written EXCEPT
                                      !.thumbnail = CreatesThumbnail(overlay)]
                      /\ pc' = "render"
                      /\ UNCHANGED error
    /\ UNCHANGED <<caller, args, test_cfg, test_enabled, test_minutes,
                   repeat_playlist, disable_upload, audio_files, duration_map,
                   target_min, min_cfg, playlist, total, index, total_seconds,
                   probed_total, max_cfg, max_seconds, audio_path, trim_to,
                   render_duration, upload_enabled>>

\* Lines 134-145: render_video(..., duration_seconds=total_seconds,
\* drawtext_filter=...).
RenderVideo ==
    /\ pc = "render"
    /\ calls' = Append(calls, "render")
    /\ render_duration' = Some(total_seconds)
    /\ frame' = [frame EXCEPT
                    !.render_drawtext =
                        Some(RenderDrawtext(frame.overlay, frame.drawtext_filter))]
    /\ \E ok \in BOOLEAN :
          IF ~ok
          THEN Fail("RuntimeError: ffmpeg failed")
          ELSE pc' = "chapters" /\ UNCHANGED error
    /\ UNCHANGED <<caller, args, test_cfg, test_enabled, test_minutes,
                   repeat_playlist, disable_upload, audio_files, duration_map,
                   target_min, min_cfg, playlist, total, index, total_seconds,
                   probed_total, max_cfg, max_seconds, audio_path, trim_to,
                   upload_enabled>>

\* Lines 147-153: with a tracklist and tracklist.embed_chapters the chapter
\* metadata is written and muxed into the video.
EmbedChapters ==
    /\ pc = "chapters"
    /\ IF frame.tracklist[1] # None
       THEN IF frame.config.embed_chapters
            THEN /\ frame' = [frame EXCEPT !.chapters =
                       Some(WriteFfmetadataChapters(RunPlaylist(playlist),
                                RunDurationMap(duration_map)))]
                 /\ calls' = calls \o <<"chapters", "mux">>
                 /\ \E ok \in BOOLEAN :
                       IF ~ok
                       THEN Fail("RuntimeError: ffmpeg failed")
                       ELSE pc' = "upload" /\ UNCHANGED error
            ELSE /\ pc' = "upload"
                 /\ UNCHANGED <<frame, calls, error>>
       ELSE /\ pc' = "upload"
            /\ UNCHANGED <<frame, calls, error>>
    /\ UNCHANGED <<caller, args, test_cfg, test_enabled, test_minutes,
                   repeat_playlist, disable_upload, audio_files, duration_map,
                   target_min, min_cfg, playlist, total, index, total_seconds,
                   probed_total, max_cfg, max_seconds, audio_path, trim_to,
                   render_duration, upload_enabled>>

\* Lines 174-183 after upload_video has returned: set_thumbnail is called
\* for a wanted thumbnail and a non-empty video id; NotImplementedError is
\* swallowed, any other exception leaves run_once.
SetThumbnail ==
    IF WantsThumbnailUpload(frame.overlay, frame.thumbnail)
    THEN \E id \in VideoIds :
            IF HasVideoId(id)
            THEN /\ calls' = calls \o <<"upload", "set_thumbnail">>
                 /\ \E outcome \in {"ok", "NotImplementedError", "error"} :
                       IF outcome = "error"
                       THEN /\ Fail("set_thumbnail failed")
                            /\ frame' = [frame EXCEPT !.video_id = Some(id)]
                       ELSE /\ frame' = [frame EXCEPT
                                            !.video_id = Some(id),
                                            !.thumbnail_set = outcome]
                            /\ pc' = "done"
                            /\ UNCHANGED error
            ELSE /\ calls' = Append(calls, "upload")
                 /\ frame' = [frame EXCEPT !.video_id = Some(id)]
                 /\ pc' = "done"
                 /\ UNCHANGED error
    ELSE /\ calls' = Append(calls, "upload")
         /\ pc' = "done"
         /\ UNCHANGED <<frame, error>>

\* Lines 155-183: the uploader is built, upload_video is called and the
\* thumbnail is set.
Upload ==
    /\ pc = "upload"
    /\ \E enabled \in DefaultTrueCfgs :
          /\ upload_enabled' = CfgGet(enabled, TRUE)
          /\ IF ShouldUpload(upload_enabled', disable_upload)
             THEN \E ok \in BOOLEAN :
                     IF ~ok
                     THEN /\ calls' = Append(calls, "upload")
                          /\ Fail("upload failed")
                          /\ UNCHANGED frame
                     ELSE SetThumbnail
             ELSE /\ pc' = "done"
                  /\ UNCHANGED <<frame, calls, error>>
    /\ UNCHANGED <<caller, args, test_cfg, test_enabled, test_minutes,
                   repeat_playlist, disable_upload, audio_files, duration_map,
                   target_min, min_cfg, playlist, total, index, total_seconds,
                   probed_total, max_cfg, max_seconds, audio_path, trim_to,
                   render_duration>>

Next ==
    \/ ReadTestConfig
    \/ CollectAudio
    \/ ProbeDurations
    \/ TargetMin
    \/ BuildPlaylistEnter
    \/ LoopStep
    \/ LoopExit
    \/ ConcatAudio
    \/ TargetMax
    \/ AdjustMax
    \/ Enforce
    \/ PrepareVisuals
    \/ BuildOverlay
    \/ RenderVideo
    \/ EmbedChapters
    \/ Upload

Spec == Init /\ [][Next]_vars

(***************************************************************************)
(* Properties of run_once.                                                 *)
(***************************************************************************)

\* _build_playlist has returned to run_once.
PlaylistBuilt == caller = "run_once" /\ (pc = "concat" \/ Called("concat"))

\* Lines 87-98 have been passed without an exception.
Enforced ==
    pc \in {"visuals", "overlay", "render", "chapters", "upload", "done"}

Trimmed == audio_path = "trimmed"

\* C5: when collection yields an empty track list the run fails with an
\* error, collection is not retried, and no probe, playlist build, concat,
\* trim, render or upload step is performed.
C5_EmptyFails ==
    (pc \notin {"start", "collect"} /\ audio_files = <<>>) =>
        /\ pc = "failed"
        /\ error # "none"
        /\ calls = <<"collect">>
        /\ playlist = <<>>
        /\ ~ENABLED Next

\* C5 witness: the run has ended with the no-audio error.
C5_Witness ==
    /\ pc = "failed"
    /\ audio_files = <<>>
    /\ error = "RuntimeError: No MP3 files found"

\* C6 as stated: the audio is trimmed iff a maximum is set (not None) and
\* the probed total exceeds it, and then to exactly the maximum.
C6_Original ==
    Enforced =>
        /\ Trimmed <=> (max_seconds # None /\ probed_total[1] > max_seconds[1])
        /\ Trimmed => (trim_to = max_seconds /\ total_seconds = max_seconds[1])
        /\ ~Trimmed => (~Called("trim") /\ total_seconds = probed_total[1])

\* C6 amended: the audio is trimmed iff the maximum is set to a non-zero
\* value and the probed total exceeds it; it is then trimmed to exactly the
\* maximum and the total becomes the maximum.  With the maximum unset or
\* zero nothing is trimmed and the total stays the probed total.
C6_TrimIff ==
    Enforced =>
        /\ Trimmed <=> (Truthy(max_seconds) /\ probed_total[1] > max_seconds[1])
        /\ Trimmed => (/\ Called("trim")
                       /\ trim_to = max_seconds
                       /\ total_seconds = max_seconds[1])
        /\ ~Trimmed => (~Called("trim") /\ total_seconds = probed_total[1])

\* C6 witness: a run whose probed total exceeded the maximum and was trimmed.
C6_Witness ==
    /\ Enforced
    /\ Trimmed
    /\ probed_total[1] > max_seconds[1]
    /\ total_seconds = max_seconds[1]

\* C7: the playlist's cumulative duration is >= the minimum handed to the
\* planner whenever that minimum is enabled (> 0), and the duration handed
\* to render_video is <= the maximum whenever a maximum is in force (set
\* and non-zero, the test of line 87).
C7_DurationBounds ==
    /\ (PlaylistBuilt /\ target_min > 0)
          => SumDur(playlist, duration_map) >= target_min
    /\ (Called("render") /\ Truthy(max_seconds))
          => (render_duration # None /\ render_duration[1] <= max_seconds[1])

\* C7 witness: a finished run with a repeated playlist that reached its
\* minimum and whose audio was cut to the maximum before the render.
C7_Witness ==
    /\ pc = "done"
    /\ target_min > 0
    /\ Len(playlist) > Len(audio_files)
    /\ Trimmed
    /\ render_duration = max_seconds

\* The override supplied by the caller: --test-minutes, else test.max_minutes.
Override ==
    IF args.test_minutes # None THEN args.test_minutes
    ELSE CfgGet(test_cfg.max_minutes, None)

\* Test mode as requested by the flag, the configuration or --test-minutes.
TestRequested ==
    /\ pc # "start"
    /\ caller = "run_once"
    /\ (args.test \/ CfgGet(test_cfg.enabled, FALSE) \/ args.test_minutes # None)

\* The maximum _target_max_seconds returned for the configuration read.
Configured == TargetMaxSeconds(max_cfg[1].minutes, max_cfg[1].hours)

\* C8 as stated: in test mode any supplied override replaces the configured
\* maximum; with no override and repetition disabled there is no maximum;
\* otherwise the configured maximum applies.
C8_Original ==
    pc = "trim" =>
        /\ (TestRequested /\ Override # None)
              => max_seconds = Some(Override[1] * 60)
        /\ (TestRequested /\ Override = None /\ ~repeat_playlist)
              => max_seconds = None
        /\ (~TestRequested \/ (Override = None /\ repeat_playlist))
              => max_seconds = Configured

\* C8 amended: as stated, with an override of 0 minutes counting as no
\* override.
C8_Precedence ==
    pc = "trim" =>
        /\ (TestRequested /\ Truthy(Override))
              => max_seconds = Some(Override[1] * 60)
        /\ (TestRequested /\ ~Truthy(Override) /\ ~repeat_playlist)
              => max_seconds = None
        /\ (~TestRequested \/ (~Truthy(Override) /\ repeat_playlist))
              => max_seconds = Configured

\* C8 witness: a test run whose override replaced a different configured
\* maximum.
C8_Witness ==
    /\ pc = "trim"
    /\ TestRequested
    /\ Truthy(Override)
    /\ Configured # None
    /\ Configured # max_seconds
    /\ max_seconds = Some(Override[1] * 60)

C10_MinutesFirst ==
    /\ (pc = "build" /\ min_cfg # None) =>
          LET m == CfgGet(min_cfg[1].minutes, None)
              h == CfgGet(min_cfg[1].hours, Some(DefaultMinHours))
          IN  /\ m # None => target_min = m[1] * 60
              /\ (m = None /\ Truthy(h)) => target_min = h[1] * 3600
    /\ (pc = "effective_max" /\ max_cfg # None) =>
          LET m == CfgGet(max_cfg[1].minutes, None)
              h == CfgGet(max_cfg[1].hours, Some(DefaultMaxHours))
          IN  /\ m # None => max_seconds = Some(m[1] * 60)
              /\ (m = None /\ Truthy(h)) => max_seconds = Some(h[1] * 3600)

\* C10 witness: both a minutes and an hours maximum are configured and the
\* result is the minutes value, which differs from the hours value.
C10_Witness ==
    /\ pc = "effective_max"
    /\ max_cfg = Some([minutes |-> Key(Some(70)), hours |-> Key(Some(1))])
    /\ max_seconds = Some(4200)


(***************************************************************************)
(* Properties of run_once, lines 100-183.                                  *)
(***************************************************************************)

\* The locals of lines 100-183 exist.
RunFrame == frame # None

RunTracklistWritten == RunFrame /\ TracklistWritten

RunChaptersWritten == RunFrame /\ ChaptersWritten

\* The seconds the first n playlist elements last.
PlaylistSeconds(n) == SumSeq([j \in 1..n |-> duration_map[playlist[j]]])

\* C25: after enforcement the playlist is still the list that was built
\* (its durations sum to the total the build returned), trimmed or not; the
\* render gets the possibly trimmed duration; the tracklist has one line and
\* the chapter metadata one chapter per playlist element, with the offsets
\* of the untrimmed playlist.
C25_FullPlaylistMarks ==
    /\ Enforced => PlaylistSeconds(Len(playlist)) = total
    /\ (Enforced /\ Called("render")) => render_duration = Some(total_seconds)
    /\ RunTracklistWritten =>
          /\ Len(TracklistLines) = Len(playlist)
          /\ \A i \in DOMAIN playlist :
                StampSeconds(LineStamp(TracklistLines[i])) = PlaylistSeconds(i - 1)
    /\ RunChaptersWritten =>
          /\ ChapterCount = Len(playlist)
          /\ ChapterEnd(ChapterCount) = 1000 * PlaylistSeconds(Len(playlist))

\* A finished run whose audio was trimmed below the length of its playlist,
\* with tracklist and chapters written.
C25_Witness ==
    /\ pc = "done"
    /\ Trimmed
    /\ total_seconds < total
    /\ Len(playlist) >= 2
    /\ RunTracklistWritten
    /\ RunChaptersWritten


\* The title of the b-th chapter as written, and as ffmpeg reads it back:
\* a backslash stands for the character after it.
ChapterTitleText(b) == AfterEquals(ChapterLines[5 * b + 1])

RECURSIVE UnescapeFfmetadata(_)
UnescapeFfmetadata(s) ==
    IF s = <<>> THEN <<>>
    ELSE IF s[1] = "\\" /\ Len(s) >= 2
    THEN <<s[2]>> \o UnescapeFfmetadata(SubSeq(s, 3, Len(s)))
    ELSE <<s[1]>> \o UnescapeFfmetadata(Tail(s))

\* C28: every playlist element has an entry in the duration map, and when a
\* run has written both files the tracklist has one line and the chapter
\* metadata one chapter per playlist element, in playlist order, both with
\* the element's base name without extension as the title.
C28_SameSequence ==
    /\ \A i \in DOMAIN playlist : playlist[i] \in DOMAIN duration_map
    /\ (RunTracklistWritten /\ RunChaptersWritten) =>
          /\ Len(TracklistLines) = Len(playlist)
          /\ ChapterCount = Len(playlist)
          /\ \A i \in DOMAIN playlist :
                /\ LineTitle(TracklistLines[i]) = Stem(RunPaths[playlist[i]])
                /\ UnescapeFfmetadata(ChapterTitleText(i))
                       = LineTitle(TracklistLines[i])

\* Both files written for a playlist that repeats its two tracks, one of
\* them with "=" in its name.
C28_Witness ==
    /\ RunTracklistWritten
    /\ RunChaptersWritten
    /\ Len(playlist) >= 3
    /\ playlist[1] = 1
    /\ playlist[2] = 2
    /\ playlist[3] = 1
    /\ ChapterTitleText(2) = <<"x", "\\", "=", "y">>
    /\ LineTitle(TracklistLines[2]) = <<"x", "=", "y">>


\* No explicit text, and no candidate that is not blank.
NoOverlayConfigured ==
    /\ RunFrame
    /\ frame.config.text = <<>>
    /\ \A i \in DOMAIN frame.config.auto_texts.v :
          Strip(frame.config.auto_texts.v[i]) = <<>>

\* C26: with no explicit text and no non-blank candidate the resolved text
\* is empty and there is no overlay: overlay.txt is not written, no drawtext
\* filter is built or passed to render_video, and no thumbnail is created
\* or uploaded.
C26_NoOverlay ==
    NoOverlayConfigured =>
        /\ frame.overlay_text = <<>>
        /\ frame.overlay = None
        /\ frame.textfile = None
        /\ ~Called("overlay_txt")
        /\ frame.drawtext_filter = None
        /\ frame.render_drawtext \in {None, Some(None)}
        /\ ~frame.thumbnail
        /\ ~Called("thumbnail")
        /\ ~Called("set_thumbnail")
        /\ frame.thumbnail_set = "none"

\* A run with only blank candidates, a thumbnail upload asked for, rendered
\* without drawtext and uploaded.
C26_Witness ==
    /\ pc = "done"
    /\ NoOverlayConfigured
    /\ frame.config.auto_texts = BlankCandidates
    /\ frame.config.upload_thumbnail
    /\ frame.render_drawtext = Some(None)
    /\ Called("upload")

\* Where a step stands in the trace of calls.
Position(op) == CHOOSE i \in DOMAIN calls : calls[i] = op

ChaptersEmbedded ==
    RunTracklistWritten /\ frame.config.embed_chapters

\* C30: upload_video is called only after render_video, and after
\* mux_chapters when chapters are embedded, and only if no earlier step has
\* raised; set_thumbnail is called only after upload_video has returned a
\* non-empty video id; a NotImplementedError from set_thumbnail leaves the
\* run successful.
C30_UploadLast ==
    /\ Called("upload") =>
          /\ Called("render")
          /\ Position("render") < Position("upload")
          /\ ChaptersEmbedded =>
                (Called("mux") /\ Position("mux") < Position("upload"))
          /\ error \in {"none", "upload failed", "set_thumbnail failed"}
    /\ Called("set_thumbnail") =>
          /\ Called("upload")
          /\ Position("upload") < Position("set_thumbnail")
          /\ frame.video_id # None
          /\ frame.video_id[1] # <<>>
    /\ (RunFrame /\ frame.thumbnail_set = "NotImplementedError") =>
          (pc = "done" /\ error = "none")

\* A finished run with chapters muxed, the video uploaded and set_thumbnail
\* not implemented by the uploader.
C30_Witness ==
    /\ pc = "done"
    /\ Called("mux")
    /\ Called("set_thumbnail")
    /\ frame.thumbnail_set = "NotImplementedError"

====
